---- MODULE Spec2Model ----
(***************************************************************************)
(* Event log recording and replay of eko-studio:                           *)
(*   AgentLogger          (agent/logger/AgentLogger.ts, src/unnamed/part_008)*)
(*   LogPlayer            (src/agent/logger/LogPlayer.ts)                  *)
(*   LogPlayerSSEAdapter  (src/agent/logger/LogPlayerSSEAdapter.ts)        *)
(* Text is a sequence of one-character strings, so that formatting and     *)
(* parsing are computed character by character as the code does.           *)
(***************************************************************************)
EXTENDS Integers, Sequences, FiniteSets, TLC

(***************************************************************************)
(* Text helpers                                                            *)
(***************************************************************************)
NL == "\n"
SP == " "
DQ == "\""
BS == "\\"

DigitChars == <<"0", "1", "2", "3", "4", "5", "6", "7", "8", "9">>

IsDigit(c) == \E d \in 1..10 : DigitChars[d] = c

DigitVal(c) == (CHOOSE d \in 1..10 : DigitChars[d] = c) - 1

IsWs(c) == c \in {SP, NL, "\t", "\r"}

RECURSIVE Spaces(_)
Spaces(n) == IF n = 0 THEN <<>> ELSE <<SP>> \o Spaces(n - 1)

\* String(n) of a JavaScript integer
RECURSIVE NatToStr(_)
NatToStr(n) == IF n < 10 THEN <<DigitChars[n + 1]>>
               ELSE NatToStr(n \div 10) \o <<DigitChars[(n % 10) + 1]>>

IntToStr(n) == IF n < 0 THEN <<"-">> \o NatToStr(0 - n) ELSE NatToStr(n)

\* A JavaScript number that is either an integer or NaN
Num(n) == [nan |-> FALSE, n |-> n]
NaN == [nan |-> TRUE, n |-> 0]

\* String.prototype.split(sep) for a separator of one character: cut at the
\* first occurrence, then split the rest
RECURSIVE SplitChar(_, _)
SplitChar(s, sep) ==
  LET hits == {i \in 1..Len(s) : s[i] = sep}
      first == CHOOSE i \in hits : \A j \in hits : i <= j
  IN IF hits = {} THEN <<s>>
     ELSE <<SubSeq(s, 1, first - 1)>> \o SplitChar(SubSeq(s, first + 1, Len(s)), sep)

\* String.prototype.split('\n\n'): leftmost matches, none overlapping
RECURSIVE SplitBlank(_)
SplitBlank(s) ==
  LET hits == {i \in 1..(Len(s) - 1) : s[i] = NL /\ s[i + 1] = NL}
      first == CHOOSE i \in hits : \A j \in hits : i <= j
  IN IF hits = {} THEN <<s>>
     ELSE <<SubSeq(s, 1, first - 1)>> \o SplitBlank(SubSeq(s, first + 2, Len(s)))

\* Array.prototype.join('\n')
RECURSIVE JoinLines(_)
JoinLines(ls) ==
  IF ls = <<>> THEN <<>>
  ELSE IF Len(ls) = 1 THEN ls[1]
  ELSE ls[1] \o <<NL>> \o JoinLines(Tail(ls))

\* block.trim() is non-empty
TrimNonEmpty(s) == \E k \in 1..Len(s) : ~IsWs(s[k])

\* parseInt(s, 10): leading white space, an optional sign, then the longest
\* run of digits; NaN when there is no digit
RECURSIVE SkipWs(_, _)
SkipWs(s, i) == IF i <= Len(s) /\ IsWs(s[i]) THEN SkipWs(s, i + 1) ELSE i

RECURSIVE DigitRun(_, _, _)
DigitRun(s, i, acc) ==
  IF i <= Len(s) /\ IsDigit(s[i])
  THEN DigitRun(s, i + 1, acc * 10 + DigitVal(s[i]))
  ELSE [n |-> acc, i |-> i]

ParseInt(s) ==
  LET i0 == SkipWs(s, 1)
      neg == i0 <= Len(s) /\ s[i0] = "-"
      i1 == IF i0 <= Len(s) /\ s[i0] \in {"-", "+"} THEN i0 + 1 ELSE i0
      r == DigitRun(s, i1, 0)
  IN IF r.i = i1 THEN NaN
     ELSE IF neg THEN Num(0 - r.n) ELSE Num(r.n)

(***************************************************************************)
(* JSON values: null, booleans, integers, strings, arrays, objects         *)
(***************************************************************************)
JNull == [t |-> "null"]
JBool(b) == [t |-> "bool", b |-> b]
JNum(n) == [t |-> "num", n |-> n]
JStr(s) == [t |-> "str", s |-> s]
JArr(a) == [t |-> "arr", a |-> a]
JObj(m) == [t |-> "obj", m |-> m]

\* JSON string quoting
RECURSIVE EscapeChars(_)
EscapeChars(s) ==
  IF s = <<>> THEN <<>>
  ELSE (CASE Head(s) = NL -> <<BS, "n">>
          [] Head(s) = DQ -> <<BS, DQ>>
          [] Head(s) = BS -> <<BS, BS>>
          [] OTHER -> <<Head(s)>>) \o EscapeChars(Tail(s))

Quote(s) == <<DQ>> \o EscapeChars(s) \o <<DQ>>

\* JSON.stringify(value, null, 2) at indentation ind
RECURSIVE Stringify(_, _)
RECURSIVE StringifyItems(_, _)
RECURSIVE StringifyMembers(_, _)
StringifyItems(a, ind) ==
  Spaces(ind) \o Stringify(a[1], ind)
    \o (IF Len(a) = 1 THEN <<>> ELSE <<",", NL>> \o StringifyItems(Tail(a), ind))

StringifyMembers(m, ind) ==
  Spaces(ind) \o Quote(m[1][1]) \o <<":", SP>> \o Stringify(m[1][2], ind)
    \o (IF Len(m) = 1 THEN <<>> ELSE <<",", NL>> \o StringifyMembers(Tail(m), ind))

Stringify(v, ind) ==
  CASE v.t = "null" -> <<"n", "u", "l", "l">>
    [] v.t = "bool" -> IF v.b THEN <<"t", "r", "u", "e">> ELSE <<"f", "a", "l", "s", "e">>
    [] v.t = "num" -> IntToStr(v.n)
    [] v.t = "str" -> Quote(v.s)
    [] v.t = "arr" -> IF v.a = <<>> THEN <<"[", "]">>
                      ELSE <<"[", NL>> \o StringifyItems(v.a, ind + 2)
                             \o <<NL>> \o Spaces(ind) \o <<"]">>
    [] v.t = "obj" -> IF v.m = <<>> THEN <<"{", "}">>
                      ELSE <<"{", NL>> \o StringifyMembers(v.m, ind + 2)
                             \o <<NL>> \o Spaces(ind) \o <<"}">>

JsonStringify(v) == Stringify(v, 0)

\* JSON.parse: recursive descent; a result is [ok, v, i] with i the index after
\* the value.  Numbers are integers (no fraction, no exponent).
ParseFail == [ok |-> FALSE, v |-> JNull, i |-> 0]
ParseOk(v, i) == [ok |-> TRUE, v |-> v, i |-> i]

HasAt(s, i, w) ==
  /\ i + Len(w) - 1 <= Len(s)
  /\ \A k \in 1..Len(w) : s[i + k - 1] = w[k]

RECURSIVE ParseStringBody(_, _, _)
ParseStringBody(s, i, acc) ==
  IF i > Len(s) THEN ParseFail
  ELSE IF s[i] = DQ THEN ParseOk(acc, i + 1)
  ELSE IF s[i] = BS
       THEN IF i + 1 > Len(s) THEN ParseFail
            ELSE IF s[i + 1] = "n" THEN ParseStringBody(s, i + 2, Append(acc, NL))
            ELSE IF s[i + 1] = DQ THEN ParseStringBody(s, i + 2, Append(acc, DQ))
            ELSE IF s[i + 1] = BS THEN ParseStringBody(s, i + 2, Append(acc, BS))
            ELSE ParseFail
  ELSE IF s[i] \in {NL, "\t", "\r"} THEN ParseFail
  ELSE ParseStringBody(s, i + 1, Append(acc, s[i]))

ParseNumber(s, i) ==
  LET neg == s[i] = "-"
      i1 == IF neg THEN i + 1 ELSE i
      r == DigitRun(s, i1, 0)
  IN IF r.i = i1 THEN ParseFail
     ELSE IF s[i1] = "0" /\ r.i > i1 + 1 THEN ParseFail
     ELSE ParseOk(JNum(IF neg THEN 0 - r.n ELSE r.n), r.i)

RECURSIVE ParseValue(_, _)
RECURSIVE ParseItems(_, _, _)
RECURSIVE ParseMembers(_, _, _)
ParseItems(s, i, acc) ==
  LET r == ParseValue(s, SkipWs(s, i))
      j == SkipWs(s, r.i)
  IN IF ~r.ok \/ j > Len(s) THEN ParseFail
     ELSE IF s[j] = "]" THEN ParseOk(JArr(Append(acc, r.v)), j + 1)
     ELSE IF s[j] = "," THEN ParseItems(s, j + 1, Append(acc, r.v))
     ELSE ParseFail

ParseMembers(s, i, acc) ==
  LET k0 == SkipWs(s, i)
      k == IF k0 <= Len(s) /\ s[k0] = DQ THEN ParseStringBody(s, k0 + 1, <<>>)
           ELSE ParseFail
      c == SkipWs(s, k.i)
      r == IF k.ok /\ c <= Len(s) /\ s[c] = ":" THEN ParseValue(s, SkipWs(s, c + 1))
           ELSE ParseFail
      j == SkipWs(s, r.i)
  IN IF ~r.ok \/ j > Len(s) THEN ParseFail
     ELSE IF s[j] = "}" THEN ParseOk(JObj(Append(acc, <<k.v, r.v>>)), j + 1)
     ELSE IF s[j] = "," THEN ParseMembers(s, j + 1, Append(acc, <<k.v, r.v>>))
     ELSE ParseFail

ParseValue(s, i) ==
  IF i > Len(s) THEN ParseFail
  ELSE IF HasAt(s, i, <<"n", "u", "l", "l">>) THEN ParseOk(JNull, i + 4)
  ELSE IF HasAt(s, i, <<"t", "r", "u", "e">>) THEN ParseOk(JBool(TRUE), i + 4)
  ELSE IF HasAt(s, i, <<"f", "a", "l", "s", "e">>) THEN ParseOk(JBool(FALSE), i + 5)
  ELSE IF s[i] = DQ
       THEN LET r == ParseStringBody(s, i + 1, <<>>)
            IN IF r.ok THEN ParseOk(JStr(r.v), r.i) ELSE ParseFail
  ELSE IF s[i] = "-" \/ IsDigit(s[i]) THEN ParseNumber(s, i)
  ELSE IF s[i] = "["
       THEN LET j == SkipWs(s, i + 1)
            IN IF j <= Len(s) /\ s[j] = "]" THEN ParseOk(JArr(<<>>), j + 1)
               ELSE ParseItems(s, j, <<>>)
  ELSE IF s[i] = "{"
       THEN LET j == SkipWs(s, i + 1)
            IN IF j <= Len(s) /\ s[j] = "}" THEN ParseOk(JObj(<<>>), j + 1)
               ELSE ParseMembers(s, j, <<>>)
  ELSE ParseFail

\* JSON.parse(text): one value surrounded by white space, else a SyntaxError
JsonParse(s) ==
  LET r == ParseValue(s, SkipWs(s, 1))
  IN IF r.ok /\ SkipWs(s, r.i) > Len(s) THEN r ELSE ParseFail

(***************************************************************************)
(* Record format: AgentLogger.formatLogEntry and LogPlayer.parseLogFile    *)
(***************************************************************************)
\* FormatLogEntry ending the record with a single line break
FormatLogEntryOneBreak(entry) ==
  IntToStr(entry.count) \o <<"-">> \o IntToStr(entry.timestamp) \o <<"-">>
    \o IntToStr(entry.timeDiff) \o <<NL>>
    \o JsonStringify(entry.message) \o <<NL>>

\* `${count}-${timestamp}-${timeDiff}\n` + JSON.stringify(message, null, 2) + '\n\n'
FormatLogEntry(entry) ==
  IntToStr(entry.count) \o <<"-">> \o IntToStr(entry.timestamp) \o <<"-">>
    \o IntToStr(entry.timeDiff) \o <<NL>>
    \o JsonStringify(entry.message) \o <<NL, NL>>

\* the body of the loop over the blocks: <<>> when the block is skipped,
\* otherwise the one entry pushed
ParseBlock(block) ==
  LET lines == SplitChar(block, NL)
      headerParts == SplitChar(lines[1], "-")
      messageJson == JoinLines(Tail(lines))
      r == JsonParse(messageJson)
  IN IF Len(lines) < 2 THEN <<>>
     ELSE IF Len(headerParts) # 3 THEN <<>>
     ELSE IF ~r.ok THEN <<>>
     ELSE << [count |-> ParseInt(headerParts[1]),
              timestamp |-> ParseInt(headerParts[2]),
              timeDiff |-> ParseInt(headerParts[3]),
              message |-> r.v] >>

RECURSIVE ParseBlocks(_)
ParseBlocks(blocks) ==
  IF blocks = <<>> THEN <<>>
  ELSE ParseBlock(Head(blocks)) \o ParseBlocks(Tail(blocks))

\* LogPlayer.parseLogFile on the content read from the file
ParseLogFile(content) ==
  ParseBlocks(SelectSeq(SplitBlank(content), TrimNonEmpty))

(***************************************************************************)
(* Bounds and input sets                                                   *)
(***************************************************************************)
MaxCalls == 3
MaxCloses == 2
MaxBlocks == 3
StartClock == 100

\* Date.now() is not monotonic: a reading may repeat or step back
ClockSteps == {0 - 5, 0, 300}

MsgText == JStr(<<"a", NL, NL, "-", DQ, BS>>)
MsgNested == JObj(<< << <<"t", "y">>, JStr(<<"x", "-", "1">>)>>,
                     << <<"d">>, JArr(<<JNum(0 - 12), JObj(<<>>), JNull>>)>> >>)
MsgEmpty == JObj(<<>>)

Messages == {MsgText, MsgNested, MsgEmpty}

(***************************************************************************)
(* State                                                                   *)
(***************************************************************************)
VARIABLES
  enabled,        \* AgentLogger.enabled
  messageCount,   \* AgentLogger.messageCount
  lastTimestamp,  \* AgentLogger.lastTimestamp
  streamState,    \* AgentLogger.writeStream: "none" (null), "open", "ending" (end()
                  \* called, chunks still to flush), "finished", "errored"
  logFilePath,    \* AgentLogger.logFilePath
  logDirExists,   \* the directory of the log files exists on disk
  closes,         \* history: the close() calls made, with their outcome
  pending,        \* chunks handed to writeStream.write and not yet acknowledged
  file,           \* content of the log file
  fileExists,     \* the log file exists on disk
  now,            \* last reading of Date.now()
  calls,          \* history: the log() calls made, with their outcome
  overlapped,     \* history: some log() was issued while a write was pending
  phase,          \* "writing", then "read" once a reader has parsed the file
  entries,        \* result of the reader's parseLogFile()
  srcBlocks,      \* history: the blocks a given file was assembled from
  isDev,          \* isDevelopment() of the process
  caller,         \* "adapter": LogPlayerSSEAdapter.start(); "player": LogPlayer.replay(callback)
  options,        \* LogPlayerOptions given to the constructor (0 stands for undefined)
  hooks,          \* which of onStart, onComplete, onError the adapter options supply
  player,         \* LogPlayer.mode, fixedInterval, speed (in tenths)
  pc,             \* position of start() / replay(): the await it is suspended at
  idx,            \* loop variable i of replay()
  replayEntries,  \* entries of replay()
  summary,        \* summary of start()
  trace,          \* history: hook invocations, their completions, and timers
  outcome,        \* the promise returned by start() / replay()
  cancelledAt,    \* history: onMessage invocations made when the consumer of the
                  \* stream cancelled it; -1 while it has not
  runPc,          \* position of run(): "off", "running" (await eko.run), "closing"
                  \* (await logger.close() in finally), "done"
  runOutcome,     \* the promise returned by run()
  delivered,      \* history: the invocations of the original callback.onMessage
  dirFiles,       \* the files of the log directory: name -> the chunks appended,
                  \* each with the session that wrote it
  writers,        \* the AgentLogger sessions constructed in the process
  listing,        \* result of the last listLogFiles(logDir)
  latest,         \* result of the last getLatestLog(logDir)
  taskStatus,     \* taskStore: status of the task, "absent" when it is not stored
  requests,       \* the GET requests to the stream endpoint, with their answers
  sse,            \* the events enqueued on the stream, replayed messages aside
  sseState,       \* the ReadableStream controller: "none", "open", "closed"
  handlers        \* history: the handler executions started

loggerVars == <<enabled, messageCount, lastTimestamp, streamState, pending, now,
                calls, overlapped, logFilePath, closes>>
fileVars == <<file, fileExists, srcBlocks, logDirExists>>
readerVars == <<phase, entries>>
replayVars == <<isDev, caller, options, hooks, player, pc, idx, replayEntries,
                summary, trace, outcome, cancelledAt>>
runVars == <<runPc, runOutcome, delivered>>
dirVars == <<dirFiles, writers, listing, latest>>
routeVars == <<taskStatus, requests, sse, sseState, handlers>>
vars == <<loggerVars, fileVars, readerVars, replayVars, runVars, dirVars, routeVars>>

\* values of errors, of the promise of start(), and of a null summary
NoError == [isError |-> FALSE, msg |-> ""]
Pending == [state |-> "pending", error |-> NoError]
NullSummary == [null |-> TRUE, totalMessages |-> 0, firstTimestamp |-> NaN,
                lastTimestamp |-> NaN, duration |-> NaN]
NoPlayer == [mode |-> "none", fixedInterval |-> 0, speed10 |-> 0]

\* logFilePath of a logger that has not initialized a file
Null == "null"

\* the promise of run(), not settled; `try` is how its try block was left
RunPending == [state |-> "pending", error |-> NoError, try |-> "none"]

\* run() is not in progress
InitNoRun ==
  /\ runPc = "off"
  /\ runOutcome = RunPending
  /\ delivered = <<>>

\* the log directory is not looked at, and no second session exists
InitNoDir ==
  /\ dirFiles = <<>>
  /\ writers = <<>>
  /\ listing = <<>>
  /\ latest = Null

\* no task is stored and no request is made
InitNoRoute ==
  /\ taskStatus = "absent"
  /\ requests = <<>>
  /\ sse = <<>>
  /\ sseState = "none"
  /\ handlers = 0

\* no player exists
InitNoReplay ==
  /\ isDev = FALSE
  /\ caller = "none"
  /\ options = NoPlayer
  /\ hooks = [onStart |-> FALSE, onComplete |-> FALSE, onError |-> FALSE]
  /\ player = NoPlayer
  /\ pc = "off"
  /\ idx = 0
  /\ replayEntries = <<>>
  /\ summary = NullSummary
  /\ trace = <<>>
  /\ outcome = Pending
  /\ cancelledAt = 0 - 1

(***************************************************************************)
(* AgentLogger                                                             *)
(***************************************************************************)
\* NewLogEntry numbering the entry before the increment
NewLogEntryStaleCount(mc, last, timestamp, message) ==
  [count |-> mc,
   timestamp |-> timestamp,
   timeDiff |-> IF mc = 0 THEN 0 ELSE timestamp - last,
   message |-> message]

\* NewLogEntry without the special case of the first call
NewLogEntryNoFirst(mc, last, timestamp, message) ==
  [count |-> mc + 1,
   timestamp |-> timestamp,
   timeDiff |-> timestamp - last,
   message |-> message]

\* the LogEntry built by log() from the fields read at the call
NewLogEntry(mc, last, timestamp, message) ==
  [count |-> mc + 1,
   timestamp |-> timestamp,
   timeDiff |-> IF mc = 0 THEN 0 ELSE timestamp - last,
   message |-> message]

\* log(message) up to its await: the early return, the entry, and the chunk
\* handed to writeStream.write (the Promise executor runs synchronously)
Log(message, step) ==
  /\ phase = "writing"
  /\ Len(calls) < MaxCalls
  /\ IF ~enabled \/ streamState = "none"
     THEN /\ calls' = Append(calls, [message |-> message, status |-> "noop",
                                     entry |-> NewLogEntry(0, 0, 0, message)])
          /\ UNCHANGED <<messageCount, pending, now, overlapped>>
     ELSE LET timestamp == now + step
              entry == NewLogEntry(messageCount, lastTimestamp, timestamp, message)
          IN /\ now' = timestamp
             /\ messageCount' = messageCount + 1
             /\ pending' = Append(pending, [text |-> FormatLogEntry(entry),
                                            timestamp |-> timestamp,
                                            call |-> Len(calls) + 1])
             /\ calls' = Append(calls, [message |-> message, status |-> "pending",
                                        entry |-> entry])
             /\ overlapped' = (overlapped \/ pending # <<>>)
  /\ UNCHANGED <<enabled, lastTimestamp, streamState, logFilePath, closes,
                 fileVars, readerVars, dirVars, routeVars, replayVars>>

\* the stream writes its oldest chunk and calls back without error; log()
\* resumes after the await and stores lastTimestamp
WriteDone ==
  /\ phase = "writing"
  /\ streamState \in {"open", "ending"}
  /\ pending # <<>>
  /\ file' = file \o Head(pending).text
  /\ pending' = Tail(pending)
  /\ lastTimestamp' = Head(pending).timestamp
  /\ calls' = [calls EXCEPT ![Head(pending).call].status = "ok"]
  /\ UNCHANGED <<enabled, messageCount, streamState, now, overlapped, logFilePath, closes,
                 fileExists, srcBlocks, logDirExists, readerVars, dirVars, routeVars, replayVars>>

\* a close() call that has settled, with the content of the file at that time
Closed(status, error) == [status |-> status, error |-> error, file |-> file]

\* the stream is destroyed with an error: the callbacks of end() waiting for
\* the finish get the error, and their close() promises reject
RejectClosing(cs, error) ==
  [k \in 1..Len(cs) |-> IF cs[k].status = "pending" THEN Closed("rejected", error) ELSE cs[k]]

\* the write fails: the callback gets the error, the promise of log() rejects
\* before lastTimestamp is stored, and the stream stays errored
WriteError ==
  /\ phase = "writing"
  /\ streamState \in {"open", "ending", "errored"}
  /\ pending # <<>>
  /\ streamState' = "errored"
  /\ pending' = Tail(pending)
  /\ calls' = [calls EXCEPT ![Head(pending).call].status = "failed"]
  /\ closes' = RejectClosing(closes, "write failed")
  /\ UNCHANGED <<enabled, messageCount, lastTimestamp, now, overlapped, logFilePath,
                 fileVars, readerVars, dirVars, routeVars, replayVars>>

\* close(): without a stream the promise resolves; otherwise
\* writeStream.end(callback), which starts the ending of an open stream,
\* waits for the finish of an ending one, and calls back with an error on a
\* stream already finished or destroyed (writeStream is never reset to null)
CloseStream(state) ==
  CASE state = "none" -> [stream |-> "none", close |-> Closed("resolved", "")]
    [] state = "open" -> [stream |-> "ending", close |-> Closed("pending", "")]
    [] state = "ending" -> [stream |-> "ending", close |-> Closed("pending", "")]
    [] state = "finished" ->
         [stream |-> "finished", close |-> Closed("rejected", "ERR_STREAM_ALREADY_FINISHED")]
    [] state = "errored" ->
         [stream |-> "errored", close |-> Closed("rejected", "ERR_STREAM_DESTROYED")]

\* close() up to the return of its promise
Close ==
  /\ phase = "writing"
  /\ Len(closes) < MaxCloses
  /\ streamState' = CloseStream(streamState).stream
  /\ closes' = Append(closes, CloseStream(streamState).close)
  /\ UNCHANGED <<enabled, messageCount, lastTimestamp, pending, now, calls, overlapped,
                 logFilePath, fileVars, readerVars, dirVars, routeVars, replayVars>>

\* the ending stream has flushed its chunks: it finishes, the callbacks of
\* end() are called without error and the close() promises resolve
Finish ==
  /\ phase = "writing"
  /\ streamState = "ending"
  /\ pending = <<>>
  /\ streamState' = "finished"
  /\ closes' = [k \in 1..Len(closes) |->
                  IF closes[k].status = "pending" THEN Closed("resolved", "") ELSE closes[k]]
  /\ UNCHANGED <<enabled, messageCount, lastTimestamp, pending, now, calls, overlapped,
                 logFilePath, fileVars, readerVars, dirVars, routeVars, replayVars>>

AgentLoggerGetLogFilePath == logFilePath
AgentLoggerGetMessageCount == messageCount

\* the steps of a logger that is used outside run()
LogCall(message, step) == Log(message, step) /\ UNCHANGED runVars
WriteAck == WriteDone /\ UNCHANGED runVars
WriteFail == WriteError /\ UNCHANGED runVars
CloseCall == Close /\ UNCHANGED runVars
StreamFinish == Finish /\ UNCHANGED runVars

(***************************************************************************)
(* Reader                                                                  *)
(***************************************************************************)
\* new LogPlayer(...).parseLogFile() on the file as it is now
ReadLog ==
  /\ phase = "writing"
  /\ fileExists
  /\ entries' = ParseLogFile(file)
  /\ phase' = "read"
  /\ UNCHANGED <<loggerVars, fileVars, replayVars, runVars, dirVars, routeVars>>

(***************************************************************************)
(* Recording session followed by a read of its file                        *)
(***************************************************************************)
\* the constructor initializing a log file whatever `enabled` is
InitLoggerAlwaysFile(en) ==
  /\ enabled = en
  /\ messageCount = 0
  /\ lastTimestamp = 0
  /\ streamState = "open"
  /\ logFilePath = "agent-log/eko-log.log"
  /\ closes = <<>>
  /\ pending = <<>>
  /\ now = StartClock
  /\ calls = <<>>
  /\ overlapped = FALSE

\* new AgentLogger({modelName, enabled}): initializeLogFile() when enabled
InitLogger(en) ==
  /\ enabled = en
  /\ messageCount = 0
  /\ lastTimestamp = 0
  /\ streamState = IF en THEN "open" ELSE "none"
  /\ logFilePath = IF en THEN "agent-log/eko-log.log" ELSE Null
  /\ closes = <<>>
  /\ pending = <<>>
  /\ now = StartClock
  /\ calls = <<>>
  /\ overlapped = FALSE

\* the disk after the constructor, in a working directory that had no log
\* directory: initializeLogFile() makes the directory and the file
InitDisk ==
  /\ fileExists = (logFilePath # Null)
  /\ logDirExists = (logFilePath # Null)
  /\ file = <<>>
  /\ srcBlocks = <<>>

InitLog ==
  /\ InitNoReplay
  /\ InitNoRun
  /\ InitNoDir
  /\ InitNoRoute
  /\ \E en \in BOOLEAN : InitLogger(en)
  /\ InitDisk
  /\ phase = "writing"
  /\ entries = <<>>

NextLog ==
  \/ \E message \in Messages, step \in ClockSteps : LogCall(message, step)
  \/ WriteAck
  \/ WriteFail
  \/ ReadLog

SpecLog == InitLog /\ [][NextLog]_vars

(***************************************************************************)
(* A logger that is used and closed.  An enabled logger is given its       *)
(* events before it is closed; a disabled one takes log() and close() in   *)
(* any order.                                                              *)
(***************************************************************************)
SessionMessages == {MsgText, MsgEmpty}
SessionSteps == {0, 300}

InitSession == InitLog

SessionLog(message, step) ==
  /\ enabled => closes = <<>>
  /\ LogCall(message, step)

NextSession ==
  \/ \E message \in SessionMessages, step \in SessionSteps : SessionLog(message, step)
  \/ WriteAck
  \/ WriteFail
  \/ CloseCall
  \/ StreamFinish

SpecSession == InitSession /\ [][NextSession]_vars

(***************************************************************************)
(* run() of agent/index.ts: the logger, the wrapped callback handed to     *)
(* Eko, and the try / finally around eko.run.  Eko is the environment: it  *)
(* invokes the wrapped callback, with or without awaiting it, and its      *)
(* eko.run promise resolves or rejects at any time.                        *)
(***************************************************************************)
RunMessages == {MsgText, MsgEmpty}
RunSteps == {0, 300}

\* how the promise of eko.run settles: with a result, or with an error
EkoResults ==
  {[ok |-> TRUE, error |-> NoError],
   [ok |-> FALSE, error |-> [isError |-> TRUE, msg |-> "agent failed"]]}

\* await callback.onMessage(message) for event k, with the message of the
\* closure; `threw` is how the promise of the original callback settles
Invoke(d, k, message, threw) ==
  Append(d, [call |-> k, message |-> message, threw |-> threw,
             logged |-> calls'[k].status])

\* wrappedCallback.onMessage(message) up to its first suspension: log() to
\* its await; after a log() that returned at once the original callback is
\* invoked in the same run of microtasks
WrappedOnMessage(message, step, threw) ==
  /\ runPc = "running"
  /\ Log(message, step)
  /\ delivered' = IF ~enabled \/ streamState = "none"
                  THEN Invoke(delivered, Len(calls) + 1, message, threw)
                  ELSE delivered
  /\ UNCHANGED <<runPc, runOutcome>>

\* the promise of logger.log resolves and the wrapped callback goes on to
\* the original callback
LogResolves(threw) ==
  /\ runPc \in {"running", "closing", "done"}
  /\ WriteDone
  /\ delivered' = Invoke(delivered, Head(pending).call,
                         calls[Head(pending).call].message, threw)
  /\ UNCHANGED <<runPc, runOutcome>>

\* the promise of logger.log rejects: the wrapped callback rejects with the
\* error of the write, before the line that invokes the original callback
LogRejects ==
  /\ runPc \in {"running", "closing", "done"}
  /\ WriteError
  /\ UNCHANGED runVars

\* eko.run settles; a rejection leaves run() without logger.close()
EkoSettlesNoFinally(r) ==
  /\ runPc = "running"
  /\ IF r.ok
     THEN /\ Close
          /\ runPc' = "closing"
          /\ runOutcome' = [runOutcome EXCEPT !.try = "return"]
     ELSE /\ runPc' = "done"
          /\ runOutcome' = [state |-> "rejected", error |-> r.error, try |-> "throw"]
          /\ UNCHANGED <<loggerVars, fileVars, readerVars, dirVars, routeVars, replayVars>>
  /\ UNCHANGED delivered

\* eko.run settles (new Eko or eko.run throwing included): the try block is
\* left by return or by the error, and the finally block calls logger.close()
EkoSettles(r) ==
  /\ runPc = "running"
  /\ Close
  /\ runPc' = "closing"
  /\ runOutcome' = [runOutcome EXCEPT !.try = IF r.ok THEN "return" ELSE "throw",
                                      !.error = r.error]
  /\ UNCHANGED delivered

\* await logger.close() settles and run() settles: with the error of close()
\* when it rejected, otherwise as the try block was left
RunSettles ==
  /\ runPc = "closing"
  /\ closes[Len(closes)].status # "pending"
  /\ runPc' = "done"
  /\ runOutcome' =
       IF closes[Len(closes)].status = "rejected"
       THEN [runOutcome EXCEPT !.state = "rejected",
                               !.error = [isError |-> TRUE, msg |-> closes[Len(closes)].error]]
       ELSE [runOutcome EXCEPT !.state = IF runOutcome.try = "return" THEN "resolved"
                                         ELSE "rejected"]
  /\ UNCHANGED <<delivered, loggerVars, fileVars, readerVars, dirVars, routeVars, replayVars>>

\* run({enableLog}) up to await eko.run(query)
InitRun ==
  /\ InitNoReplay
  /\ InitNoDir
  /\ InitNoRoute
  /\ \E en \in BOOLEAN : InitLogger(en)
  /\ InitDisk
  /\ phase = "writing"
  /\ entries = <<>>
  /\ runPc = "running"
  /\ runOutcome = RunPending
  /\ delivered = <<>>

NextRun ==
  \/ \E message \in RunMessages, step \in RunSteps, threw \in BOOLEAN :
       WrappedOnMessage(message, step, threw)
  \/ \E threw \in BOOLEAN : LogResolves(threw)
  \/ LogRejects
  \/ \E r \in EkoResults : EkoSettles(r)
  \/ StreamFinish
  \/ RunSettles

SpecRun == InitRun /\ [][NextRun]_vars

(***************************************************************************)
(* Reading the records of a file for the properties below: every block,    *)
(* the header cut at its first two hyphens so that a negative third field  *)
(* is read with its sign                                                   *)
(***************************************************************************)
RecordOf(block) ==
  LET lines == SplitChar(block, NL)
      parts == SplitChar(lines[1], "-")
      rest == IF Len(parts) < 3 THEN <<>>
              ELSE SubSeq(lines[1], Len(parts[1]) + Len(parts[2]) + 3, Len(lines[1]))
      r == JsonParse(JoinLines(Tail(lines)))
  IN [count |-> ParseInt(parts[1]),
      timestamp |-> IF Len(parts) < 2 THEN NaN ELSE ParseInt(parts[2]),
      timeDiff |-> ParseInt(rest),
      message |-> IF r.ok THEN r.v ELSE JStr(<<"?">>)]

FileRecords(content) ==
  LET blocks == SelectSeq(SplitBlank(content), TrimNonEmpty)
  IN [k \in 1..Len(blocks) |-> RecordOf(blocks[k])]

AllCalls(statuses) == \A k \in 1..Len(calls) : calls[k].status \in statuses

ClockNonDecreasing ==
  \A k \in 1..Len(calls) :
    calls[k].entry.timestamp >= (IF k = 1 THEN StartClock ELSE calls[k - 1].entry.timestamp)

\* C1: round trip.  When an enabled logger was given N events one at a time,
\* each log() awaited, every write succeeding and the clock never stepping
\* back, parseLogFile on the file returns N entries whose messages are the
\* events in order, with count 1..N and a first timeDiff of 0.
C1_RoundTrip ==
  (phase = "read" /\ enabled /\ ~overlapped /\ pending = <<>>
     /\ AllCalls({"ok"}) /\ ClockNonDecreasing)
  => /\ Len(entries) = Len(calls)
     /\ \A k \in 1..Len(calls) :
          /\ entries[k].message = calls[k].message
          /\ entries[k].count = Num(k)
     /\ (entries # <<>> => entries[1].timeDiff = Num(0))

C1_Witness ==
  /\ phase = "read" /\ enabled /\ ~overlapped /\ pending = <<>>
  /\ AllCalls({"ok"}) /\ ClockNonDecreasing
  /\ Len(calls) = MaxCalls
  /\ calls[1].message = MsgText
  /\ calls[2].message = MsgNested
  /\ Len(entries) = MaxCalls
  /\ entries[2].timeDiff = Num(300)

\* C6: as long as no write of the session has failed, the file holds one
\* record per acknowledged log() call, in the order of the calls (awaited or
\* overlapping), and the records are numbered 1, 2, 3, ... without gap or reuse.
C6_CallOrder ==
  (enabled /\ AllCalls({"ok", "pending"}))
  => LET recs == FileRecords(file)
     IN /\ Len(recs) = Len(calls) - Len(pending)
        /\ \A k \in 1..Len(recs) :
             /\ recs[k].count = Num(k)
             /\ recs[k].message = calls[k].message
             /\ calls[k].status = "ok"

C6_Witness ==
  /\ enabled /\ overlapped /\ AllCalls({"ok"})
  /\ Len(calls) = MaxCalls
  /\ Len(FileRecords(file)) = MaxCalls
  /\ calls[1].message # calls[2].message

\* C7: in a session whose log() calls were awaited one by one and whose
\* writes all succeeded, the first record of the file has timeDiff 0 and
\* every later record has timeDiff = its timestamp - the previous timestamp.
C7_TimeDiff ==
  (enabled /\ ~overlapped /\ AllCalls({"ok", "pending"}))
  => LET recs == FileRecords(file)
     IN \A k \in 1..Len(recs) :
          recs[k].timeDiff =
            (IF k = 1 THEN Num(0)
             ELSE Num(recs[k].timestamp.n - recs[k - 1].timestamp.n))

C7_Witness ==
  /\ enabled /\ ~overlapped /\ AllCalls({"ok"})
  /\ Len(calls) = MaxCalls
  /\ LET recs == FileRecords(file)
     IN /\ Len(recs) = MaxCalls
        /\ recs[2].timeDiff = Num(300)
        /\ recs[3].timeDiff = Num(0 - 5)

(***************************************************************************)
(* Reading a file assembled from well-formed and malformed blocks          *)
(***************************************************************************)
\* a record as the writer formats it, without the separator
BlockText(entry) ==
  LET text == FormatLogEntry(entry) IN SubSeq(text, 1, Len(text) - 2)

GoodBlock(entry) == [text |-> BlockText(entry), good |-> TRUE, entry |-> entry]
BadBlock(text) ==
  [text |-> text, good |-> FALSE,
   entry |-> [count |-> 0, timestamp |-> 0, timeDiff |-> 0, message |-> JNull]]

GoodFirst == GoodBlock([count |-> 1, timestamp |-> 100, timeDiff |-> 0, message |-> MsgEmpty])
GoodSecond == GoodBlock([count |-> 2, timestamp |-> 600, timeDiff |-> 500, message |-> MsgNested])
\* a header of two fields
BadTwoFields == BadBlock(<<"1", "-", "1", "0", "0", NL, "{", "}">>)
\* a header of three fields that are not integers
BadWords == BadBlock(<<"x", "-", "y", "-", "z", NL, "{", "}">>)
\* a payload that is not JSON
BadJson == BadBlock(<<"2", "-", "2", "0", "0", "-", "5", "0", NL, "{", "o", "o", "p", "s">>)
\* a payload cut before its end
BadCut == BadBlock(<<"3", "-", "3", "0", "0", "-", "5", "0", NL, "{", NL, SP, SP, DQ, "a", DQ, ":", SP, "1">>)
\* a header without payload
BadHeaderOnly == BadBlock(<<"4", "-", "4", "0", "0", "-", "5", "0">>)

BlockKinds == {GoodFirst, GoodSecond, BadTwoFields, BadWords, BadJson, BadCut, BadHeaderOnly}

RECURSIVE FileOfBlocks(_)
FileOfBlocks(bs) ==
  IF bs = <<>> THEN <<>> ELSE Head(bs).text \o <<NL, NL>> \o FileOfBlocks(Tail(bs))

BlockSeqs == UNION {[1..n -> BlockKinds] : n \in 0..MaxBlocks}

AsParsed(entry) ==
  [count |-> Num(entry.count), timestamp |-> Num(entry.timestamp),
   timeDiff |-> Num(entry.timeDiff), message |-> entry.message]

RECURSIVE GoodEntries(_)
GoodEntries(bs) ==
  IF bs = <<>> THEN <<>>
  ELSE (IF Head(bs).good THEN <<AsParsed(Head(bs).entry)>> ELSE <<>>)
         \o GoodEntries(Tail(bs))

InitIdleLogger ==
  /\ InitLogger(FALSE)
  /\ InitNoRun
  /\ InitNoDir
  /\ InitNoRoute
  /\ fileExists = TRUE
  /\ logDirExists = TRUE
  /\ phase = "writing"
  /\ entries = <<>>

InitParse ==
  /\ InitNoReplay
  /\ InitIdleLogger
  /\ srcBlocks \in BlockSeqs
  /\ file = FileOfBlocks(srcBlocks)

NextParse == ReadLog

SpecParse == InitParse /\ [][NextParse]_vars

\* C5: malformed tolerance.  For a file made of any mix of well-formed and
\* malformed blocks, parseLogFile returns exactly the well-formed blocks as
\* entries, in file order, whatever the position of the malformed ones.
C5_MalformedTolerance ==
  phase = "read" => entries = GoodEntries(srcBlocks)

(***************************************************************************)
(* LogPlayer and LogPlayerSSEAdapter                                       *)
(***************************************************************************)
MaxEntries == 3
TimeDiffs == {0, 500, 1500}

\* a - b on JavaScript numbers
Minus(a, b) == IF a.nan \/ b.nan THEN NaN ELSE Num(a.n - b.n)

\* a delay in milliseconds, kept as the fraction num / den
Ms(num, den) == [nan |-> FALSE, num |-> num, den |-> den]
MsNaN == [nan |-> TRUE, num |-> 0, den |-> 1]

\* LogPlayer constructor: options.x || default
NewPlayer(opts) ==
  [mode |-> IF opts.mode = "undefined" THEN "realtime" ELSE opts.mode,
   fixedInterval |-> IF opts.fixedInterval = 0 THEN 1000 ELSE opts.fixedInterval,
   speed10 |-> IF opts.speed10 = 0 THEN 10 ELSE opts.speed10]

\* LogPlayer.calculateDelay with the delay calculated from the current entry
CalculateDelayCurrent(p, currentEntry, nextEntry) ==
  IF p.mode = "fixed" THEN Ms(p.fixedInterval * 10, p.speed10)
  ELSE IF currentEntry.timeDiff.nan THEN MsNaN
  ELSE Ms(currentEntry.timeDiff.n * 10, p.speed10)

\* LogPlayer.calculateDelay
CalculateDelay(p, currentEntry, nextEntry) ==
  IF p.mode = "fixed" THEN Ms(p.fixedInterval * 10, p.speed10)
  ELSE IF nextEntry.timeDiff.nan THEN MsNaN
  ELSE Ms(nextEntry.timeDiff.n * 10, p.speed10)

\* LogPlayer.getLogSummary giving a summary of zero messages for no entry
GetLogSummaryOfNone(es) ==
  [null |-> FALSE,
   totalMessages |-> Len(es),
   firstTimestamp |-> IF es = <<>> THEN NaN ELSE es[1].timestamp,
   lastTimestamp |-> IF es = <<>> THEN NaN ELSE es[Len(es)].timestamp,
   duration |-> IF es = <<>> THEN NaN ELSE Minus(es[Len(es)].timestamp, es[1].timestamp)]

\* LogPlayer.getLogSummary taking the total from the number of the last record
GetLogSummaryLastCount(es) ==
  IF es = <<>> THEN NullSummary
  ELSE [null |-> FALSE,
        totalMessages |-> es[Len(es)].count.n,
        firstTimestamp |-> es[1].timestamp,
        lastTimestamp |-> es[Len(es)].timestamp,
        duration |-> Minus(es[Len(es)].timestamp, es[1].timestamp)]

\* LogPlayer.getLogSummary on the entries parsed from the file
GetLogSummary(es) ==
  IF es = <<>> THEN NullSummary
  ELSE [null |-> FALSE,
        totalMessages |-> Len(es),
        firstTimestamp |-> es[1].timestamp,
        lastTimestamp |-> es[Len(es)].timestamp,
        duration |-> Minus(es[Len(es)].timestamp, es[1].timestamp)]

\* route.ts: the range of fixedInterval the stream endpoint accepts
ValidFixedInterval(dev, fixedInterval) ==
  LET minFixedInterval == IF dev THEN 0 ELSE 10
      maxFixedInterval == 60000
  IN ~(fixedInterval < minFixedInterval \/ fixedInterval > maxFixedInterval)

\* the validation of speed without its lower limit
ValidSpeedNoLower(speed10) == ~(speed10 > 1000)

\* route.ts: speed < 0.1 || speed > 100 is refused
ValidSpeed(speed10) == ~(speed10 < 1 \/ speed10 > 1000)

EmptyLogError == [isError |-> TRUE, msg |-> "Unable to get log summary, log file may be empty"]

\* error instanceof Error ? error : new Error(String(error))
AsError(e) == IF e.isError THEN e ELSE [isError |-> TRUE, msg |-> e.msg]

\* what a hook can throw: an Error, or a value that is not an Error
Thrown == {[isError |-> TRUE, msg |-> "hook failed"], [isError |-> FALSE, msg |-> "text"]}
HookResults == {[ok |-> TRUE, error |-> NoError]} \cup {[ok |-> FALSE, error |-> e] : e \in Thrown}

Event(ev, arg) == [ev |-> ev, arg |-> arg]

\* the invocation with the metadata count taken from the position in the list
CallbackEventCountFromIndex(es, i) ==
  Event("onMessage", [message |-> es[i + 1].message, count |-> Num(i + 1),
                      timestamp |-> es[i + 1].timestamp, timeDiff |-> es[i + 1].timeDiff,
                      index |-> i, total |-> Len(es)])

\* the invocation callback(entries[i], i, total); through the adapter it is
\* onMessage(entry.message, {count, timestamp, timeDiff, index, total})
CallbackEvent(es, i) ==
  Event("onMessage", [message |-> es[i + 1].message, count |-> es[i + 1].count,
                      timestamp |-> es[i + 1].timestamp, timeDiff |-> es[i + 1].timeDiff,
                      index |-> i, total |-> Len(es)])

\* the promise of start() / replay() settles
Settle(tr, state, e) ==
  /\ trace' = tr
  /\ pc' = "done"
  /\ outcome' = [state |-> state, error |-> e]

\* the catch block resolving when no onError hook is supplied
CatchSwallow(tr, e) ==
  IF caller = "adapter"
  THEN IF hooks.onError
       THEN /\ trace' = Append(tr, Event("onError", AsError(e)))
            /\ pc' = "onError"
            /\ outcome' = outcome
       ELSE Settle(tr, "resolved", NoError)
  ELSE Settle(tr, "rejected", e)

\* the catch block going on to the completion callback
CatchThenComplete(tr, e) ==
  IF caller = "adapter"
  THEN IF hooks.onComplete
       THEN /\ trace' = Append(tr, Event("onComplete", NoError))
            /\ pc' = "onComplete"
            /\ outcome' = outcome
       ELSE Settle(tr, "rejected", e)
  ELSE Settle(tr, "rejected", e)

\* an error leaves the try block of start(): the catch block; replay() called
\* directly rejects with the error
Catch(tr, e) ==
  IF caller = "adapter" /\ hooks.onError
  THEN /\ trace' = Append(tr, Event("onError", AsError(e)))
       /\ pc' = "onError"
       /\ outcome' = outcome
  ELSE Settle(tr, "rejected", e)

\* replay() has returned: the completion callback of start()
AfterReplay(tr) ==
  IF caller = "adapter" /\ hooks.onComplete
  THEN /\ trace' = Append(tr, Event("onComplete", NoError))
       /\ pc' = "onComplete"
       /\ outcome' = outcome
  ELSE Settle(tr, "resolved", NoError)

\* the loop of replay() leaving before the last entry
IterateSkipLast(tr, es, i) ==
  IF i < Len(es) - 1
  THEN /\ trace' = Append(tr, CallbackEvent(es, i))
       /\ pc' = "onMessage"
       /\ outcome' = outcome
  ELSE AfterReplay(tr)

\* the head of the loop of replay() at index i: the callback is invoked, or
\* the loop is left
Iterate(tr, es, i) ==
  IF i < Len(es)
  THEN /\ trace' = Append(tr, CallbackEvent(es, i))
       /\ pc' = "onMessage"
       /\ outcome' = outcome
  ELSE AfterReplay(tr)

\* replay(callback) up to its first await
Replay(tr) ==
  LET es == ParseLogFile(file)
  IN /\ replayEntries' = es
     /\ idx' = 0
     /\ Iterate(tr, es, 0)

\* new LogPlayerSSEAdapter(options) / new LogPlayer(options); the constructor
\* throws when the file does not exist
Construct ==
  /\ pc = "new"
  /\ player' = NewPlayer(options)
  /\ IF fileExists
     THEN pc' = "constructed" /\ UNCHANGED <<trace, outcome>>
     ELSE Settle(trace, "rejected", [isError |-> TRUE, msg |-> "Log file does not exist"])
  /\ UNCHANGED <<cancelledAt, isDev, caller, options, hooks, idx, replayEntries, summary,
                 loggerVars, fileVars, readerVars, dirVars, routeVars, runVars>>

\* start() up to its first await: the summary, the empty-log error, onStart;
\* without an onStart hook it goes on into replay()
Start ==
  /\ pc = "constructed"
  /\ IF caller = "player"
     THEN /\ summary' = summary
          /\ Replay(trace)
     ELSE LET s == GetLogSummary(ParseLogFile(file))
          IN /\ summary' = s
             /\ IF s.null
                THEN Catch(trace, EmptyLogError) /\ UNCHANGED <<idx, replayEntries>>
                ELSE IF hooks.onStart
                THEN /\ trace' = Append(trace, Event("onStart",
                                 [totalMessages |-> s.totalMessages, duration |-> s.duration,
                                  firstTimestamp |-> s.firstTimestamp,
                                  lastTimestamp |-> s.lastTimestamp]))
                     /\ pc' = "onStart"
                     /\ UNCHANGED <<outcome, idx, replayEntries>>
                ELSE Replay(trace)
  /\ UNCHANGED <<cancelledAt, isDev, caller, options, hooks, player, loggerVars, fileVars, readerVars, dirVars, routeVars, runVars>>

\* the promise of onStart settles
OnStartReturn(r) ==
  /\ pc = "onStart"
  /\ IF r.ok
     THEN Replay(Append(trace, Event("onStart.return", NoError)))
     ELSE /\ Catch(Append(trace, Event("onStart.throw", r.error)), r.error)
          /\ UNCHANGED <<idx, replayEntries>>
  /\ UNCHANGED <<cancelledAt, isDev, caller, options, hooks, player, summary, loggerVars, fileVars, readerVars, dirVars, routeVars, runVars>>

\* the promise of the callback settles, a rejection taken for a completion
OnMessageReturnIgnoresThrow(r) ==
  /\ pc = "onMessage"
  /\ LET tr == Append(trace, Event(IF r.ok THEN "onMessage.return" ELSE "onMessage.throw",
                                   r.error))
     IN IF idx < Len(replayEntries) - 1
        THEN /\ trace' = Append(tr, Event("sleep",
                          CalculateDelay(player, replayEntries[idx + 1],
                                         replayEntries[idx + 2])))
             /\ pc' = "sleep"
             /\ UNCHANGED <<idx, outcome>>
        ELSE /\ idx' = idx + 1
             /\ Iterate(tr, replayEntries, idx + 1)
  /\ UNCHANGED <<cancelledAt, isDev, caller, options, hooks, player, summary, replayEntries,
                 loggerVars, fileVars, readerVars, dirVars, routeVars, runVars>>

\* the promise of the callback settles: the delay before the next entry is
\* calculated and the timer set, or the loop ends, or the error propagates
OnMessageReturn(r) ==
  /\ pc = "onMessage"
  /\ IF r.ok
     THEN LET tr == Append(trace, Event("onMessage.return", NoError))
          IN IF idx < Len(replayEntries) - 1
             THEN /\ trace' = Append(tr, Event("sleep",
                               CalculateDelay(player, replayEntries[idx + 1],
                                              replayEntries[idx + 2])))
                  /\ pc' = "sleep"
                  /\ UNCHANGED <<idx, outcome>>
             ELSE /\ idx' = idx + 1
                  /\ Iterate(tr, replayEntries, idx + 1)
     ELSE /\ Catch(Append(trace, Event("onMessage.throw", r.error)), r.error)
          /\ UNCHANGED idx
  /\ UNCHANGED <<cancelledAt, isDev, caller, options, hooks, player, summary, replayEntries,
                 loggerVars, fileVars, readerVars, dirVars, routeVars, runVars>>

\* the timer of sleep() fires and the loop goes on with the next entry
TimerFires ==
  /\ pc = "sleep"
  /\ idx' = idx + 1
  /\ Iterate(Append(trace, Event("wake", NoError)), replayEntries, idx + 1)
  /\ UNCHANGED <<cancelledAt, isDev, caller, options, hooks, player, summary, replayEntries,
                 loggerVars, fileVars, readerVars, dirVars, routeVars, runVars>>

\* the promise of onComplete settles
OnCompleteReturn(r) ==
  /\ pc = "onComplete"
  /\ IF r.ok
     THEN Settle(Append(trace, Event("onComplete.return", NoError)), "resolved", NoError)
     ELSE Catch(Append(trace, Event("onComplete.throw", r.error)), r.error)
  /\ UNCHANGED <<cancelledAt, isDev, caller, options, hooks, player, summary, idx, replayEntries,
                 loggerVars, fileVars, readerVars, dirVars, routeVars, runVars>>

\* the promise of onError settles: start() resolves, or rejects with what the
\* hook threw
OnErrorReturn(r) ==
  /\ pc = "onError"
  /\ IF r.ok
     THEN Settle(Append(trace, Event("onError.return", NoError)), "resolved", NoError)
     ELSE Settle(Append(trace, Event("onError.throw", r.error)), "rejected", r.error)
  /\ UNCHANGED <<cancelledAt, isDev, caller, options, hooks, player, summary, idx, replayEntries,
                 loggerVars, fileVars, readerVars, dirVars, routeVars, runVars>>

(***************************************************************************)
(* A replay of a file on disk                                              *)
(***************************************************************************)
\* the file of a session of n records with the given time differences (the
\* first is 0), the payload of its first `cut` records damaged
RECURSIVE SessionBlocks(_, _, _, _)
SessionBlocks(diffs, k, ts, cut) ==
  IF k > Len(diffs) THEN <<>>
  ELSE LET t == ts + diffs[k]
           e == [count |-> k, timestamp |-> t, timeDiff |-> diffs[k],
                 message |-> IF k % 2 = 1 THEN MsgEmpty ELSE MsgText]
       IN <<IF k <= cut
            THEN BadBlock(SubSeq(BlockText(e), 1, Len(BlockText(e)) - 1))
            ELSE GoodBlock(e)>>
          \o SessionBlocks(diffs, k + 1, t, cut)

SessionDiffs ==
  UNION {{d \in [1..n -> TimeDiffs] : n > 0 => d[1] = 0} : n \in 0..MaxEntries}

ReplayFiles ==
  {SessionBlocks(d, 1, StartClock, cut) : d \in SessionDiffs, cut \in 0..1}

PlayerOptions ==
  [mode : {"realtime", "undefined"}, speed10 : {0, 5, 10, 20}, fixedInterval : {100},
   dev : {FALSE}]
  \cup
  [mode : {"fixed"}, speed10 : {10, 20}, fixedInterval : {0, 10, 100}, dev : BOOLEAN]

HookSets == [onStart : BOOLEAN, onComplete : BOOLEAN, onError : BOOLEAN]

InitReplay ==
  /\ InitIdleLogger
  /\ srcBlocks \in ReplayFiles
  /\ file = FileOfBlocks(srcBlocks)
  /\ \E o \in PlayerOptions :
       /\ isDev = o.dev
       /\ options = [mode |-> o.mode, fixedInterval |-> o.fixedInterval, speed10 |-> o.speed10]
  /\ \/ caller = "player" /\ hooks = [onStart |-> FALSE, onComplete |-> FALSE, onError |-> FALSE]
     \/ caller = "adapter" /\ hooks \in HookSets
  /\ player = NoPlayer
  /\ pc = "new"
  /\ idx = 0
  /\ replayEntries = <<>>
  /\ summary = NullSummary
  /\ trace = <<>>
  /\ outcome = Pending
  /\ cancelledAt = 0 - 1

\* route.ts, cancel(reason) of the ReadableStream: the consumer cancels the
\* stream while start() is in flight; the handler writes a line to the
\* console, and nothing reaches the adapter or the player
CancelStream ==
  /\ caller = "adapter"
  /\ pc \in {"onStart", "onMessage", "sleep", "onComplete", "onError"}
  /\ cancelledAt < 0
  /\ cancelledAt' = Len(SelectSeq(trace, LAMBDA e : e.ev = "onMessage"))
  /\ UNCHANGED <<isDev, caller, options, hooks, player, pc, idx, replayEntries,
                 summary, trace, outcome, loggerVars, fileVars, readerVars, dirVars, routeVars, runVars>>

NextReplay ==
  \/ Construct
  \/ Start
  \/ \E r \in HookResults : OnStartReturn(r)
  \/ \E r \in HookResults : OnMessageReturn(r)
  \/ TimerFires
  \/ \E r \in HookResults : OnCompleteReturn(r)
  \/ \E r \in HookResults : OnErrorReturn(r)

SpecReplay == InitReplay /\ [][NextReplay]_vars

(***************************************************************************)
(* A replay streamed by the endpoint, which its consumer may cancel        *)
(***************************************************************************)
InitCancel ==
  /\ InitReplay
  /\ caller = "adapter"
  /\ ValidSpeed(options.speed10)
  /\ ValidFixedInterval(isDev, options.fixedInterval)

NextCancel ==
  \/ NextReplay
  \/ CancelStream

SpecCancel == InitCancel /\ [][NextCancel]_vars

(***************************************************************************)
(* Properties of a replay                                                  *)
(***************************************************************************)
EventsOf(ev) == SelectSeq(trace, LAMBDA e : e.ev = ev)
CountOf(ev) == Len(EventsOf(ev))
Threw(p) == trace[p].ev \in {"onStart.throw", "onMessage.throw", "onComplete.throw"}
Started == pc \notin {"off", "new", "constructed"}

\* replay() has returned normally
ReplayReturned ==
  \/ caller = "player" /\ outcome.state = "resolved"
  \/ caller = "adapter" /\ CountOf("onComplete") > 0
  \/ caller = "adapter" /\ outcome.state = "resolved" /\ CountOf("onError") = 0

RECURSIVE SumTimeDiff(_, _)
SumTimeDiff(es, k) == IF k > Len(es) THEN 0 ELSE es[k].timeDiff.n + SumTimeDiff(es, k + 1)

RECURSIVE SumNum(_)
SumNum(sleeps) == IF sleeps = <<>> THEN 0 ELSE Head(sleeps).arg.num + SumNum(Tail(sleeps))

\* C2: replay invokes the callback once for each entry, in ascending order,
\* with (entries[i], i, N); the invocation of an entry is followed by nothing
\* (no wait, no other invocation) until its promise has settled; when replay
\* returns, every entry has been delivered, none for an empty list.
C2_SequentialDelivery ==
  LET msgs == EventsOf("onMessage")
  IN /\ \A k \in 1..Len(msgs) :
          /\ msgs[k].arg.index = k - 1
          /\ msgs[k].arg.total = Len(replayEntries)
          /\ replayEntries[k] = [count |-> msgs[k].arg.count,
                                 timestamp |-> msgs[k].arg.timestamp,
                                 timeDiff |-> msgs[k].arg.timeDiff,
                                 message |-> msgs[k].arg.message]
     /\ \A p \in 1..Len(trace) :
          /\ (trace[p].ev = "onMessage" /\ p < Len(trace))
               => trace[p + 1].ev \in {"onMessage.return", "onMessage.throw"}
          /\ (trace[p].ev = "sleep") => (p > 1 /\ trace[p - 1].ev = "onMessage.return")
          /\ (trace[p].ev = "onMessage" /\ p > 1)
               => trace[p - 1].ev \in {"wake", "onStart.return"}
     /\ msgs # <<>> => (Len(msgs) <= Len(replayEntries)
                          /\ replayEntries = ParseLogFile(file))
     /\ ReplayReturned => Len(msgs) = Len(replayEntries)

C2_Witness ==
  /\ caller = "player"
  /\ outcome.state = "resolved"
  /\ Len(replayEntries) = MaxEntries
  /\ CountOf("onMessage") = MaxEntries
  /\ CountOf("onMessage.return") = MaxEntries

\* C3: in realtime mode the k-th wait of a replay is scheduled after the
\* delivery of entry k and before entry k+1 and lasts entries[k+1].timeDiff /
\* speed; there is no wait before the first entry or after the last, so a
\* complete replay schedules (sum of timeDiff of entries 2..N) / speed, and
\* at speed 2 half of what speed 1 schedules.
C3_RealtimeDelay ==
  (Started /\ player.mode = "realtime")
  => LET sleeps == EventsOf("sleep")
     IN /\ \A k \in 1..Len(sleeps) :
             /\ k + 1 <= Len(replayEntries)
             /\ sleeps[k].arg = Ms(replayEntries[k + 1].timeDiff.n * 10, player.speed10)
        /\ \A p \in 1..Len(trace) :
             trace[p].ev = "sleep"
               => Len(SelectSeq(SubSeq(trace, 1, p), LAMBDA e : e.ev = "onMessage"))
                    = Len(SelectSeq(SubSeq(trace, 1, p), LAMBDA e : e.ev = "sleep"))
        /\ (ReplayReturned /\ replayEntries # <<>>)
             => /\ Len(sleeps) = Len(replayEntries) - 1
                /\ trace[Len(trace)].ev # "sleep"
                /\ SumNum(sleeps) = 10 * SumTimeDiff(replayEntries, 2)
                /\ (player.speed10 = 20 => 2 * SumNum(sleeps) * 10
                                             = 10 * SumTimeDiff(replayEntries, 2) * 20)

C3_Witness ==
  /\ player.mode = "realtime"
  /\ player.speed10 = 20
  /\ ReplayReturned
  /\ Len(replayEntries) = 2
  /\ replayEntries[1].timeDiff = Num(500)
  /\ EventsOf("sleep") = <<Event("sleep", Ms(15000, 20))>>

\* C4: in fixed mode every wait of a replay lasts fixedIntervalMs / speed, for
\* every fixedIntervalMs the request validation accepts (0 to 60000 in
\* development, 10 to 60000 otherwise), whatever the recorded timeDiff values;
\* a complete replay of N entries schedules N - 1 of them.
C4_FixedDelay ==
  (Started /\ options.mode = "fixed" /\ ValidFixedInterval(isDev, options.fixedInterval)
     /\ ValidSpeed(options.speed10))
  => LET sleeps == EventsOf("sleep")
     IN /\ \A k \in 1..Len(sleeps) :
             sleeps[k].arg = Ms(options.fixedInterval * 10, options.speed10)
        /\ (ReplayReturned /\ replayEntries # <<>>) => Len(sleeps) = Len(replayEntries) - 1

\* C8: in start() the hooks are ordered onStart, onMessage..., onComplete.
\* onStart is invoked at most once, first, and has completed before the first
\* onMessage; onComplete is invoked at most once, only after the onMessage of
\* the last entry has completed and no hook has thrown; a start() that
\* resolves without error has invoked each supplied hook.
C8_HookOrder ==
  (caller = "adapter")
  => /\ CountOf("onStart") <= 1
     /\ CountOf("onComplete") <= 1
     /\ \A p \in 1..Len(trace) :
          /\ trace[p].ev = "onStart" => p = 1
          /\ (trace[p].ev = "onMessage" /\ hooks.onStart)
               => \E q \in 1..(p - 1) : trace[q].ev = "onStart.return"
          /\ trace[p].ev = "onComplete"
               => /\ \A q \in 1..p : ~Threw(q) /\ trace[q].ev # "onError"
                  /\ p > 1 /\ trace[p - 1].ev = "onMessage.return"
                  /\ Len(SelectSeq(SubSeq(trace, 1, p), LAMBDA e : e.ev = "onMessage.return"))
                       = Len(replayEntries)
          /\ Threw(p) => \A q \in p..Len(trace) : trace[q].ev # "onComplete"
     /\ (outcome.state = "resolved" /\ CountOf("onError") = 0)
          => /\ CountOf("onStart") = (IF hooks.onStart THEN 1 ELSE 0)
             /\ CountOf("onComplete") = (IF hooks.onComplete THEN 1 ELSE 0)
             /\ CountOf("onMessage.return") = Len(replayEntries)

C8_Witness ==
  /\ caller = "adapter"
  /\ hooks = [onStart |-> TRUE, onComplete |-> TRUE, onError |-> TRUE]
  /\ outcome.state = "resolved"
  /\ Len(replayEntries) = MaxEntries
  /\ trace[1].ev = "onStart"
  /\ trace[Len(trace)].ev = "onComplete.return"
  /\ CountOf("onMessage") = MaxEntries

\* the failure of start(), if any: the empty-log error or what a hook threw
Failures ==
  (IF Started /\ caller = "adapter" /\ summary.null THEN <<EmptyLogError>> ELSE <<>>)
    \o [k \in 1..Len(SelectSeq(trace, LAMBDA e : e.ev \in {"onStart.throw", "onMessage.throw", "onComplete.throw"}))
          |-> SelectSeq(trace, LAMBDA e : e.ev \in {"onStart.throw", "onMessage.throw", "onComplete.throw"})[k].arg]

\* C9: when a step of start() fails (empty log, or onStart, an onMessage or
\* onComplete throwing), a supplied onError hook is invoked exactly once with
\* the error (as an Error) and start() resolves unless that hook throws;
\* without an onError hook start() rejects with the original error.  Without
\* a failure onError is not invoked.
C9_ErrorReporting ==
  (caller = "adapter")
  => /\ Len(Failures) <= 1
     /\ Failures = <<>> => (CountOf("onError") = 0 /\ outcome.state # "rejected")
     /\ (Failures # <<>> /\ hooks.onError)
          => /\ EventsOf("onError") = <<Event("onError", AsError(Failures[1]))>>
             /\ pc \in {"onError", "done"}
             /\ pc = "done"
                  => \/ /\ outcome.state = "resolved"
                        /\ trace[Len(trace)].ev = "onError.return"
                     \/ /\ outcome.state = "rejected"
                        /\ trace[Len(trace)] = Event("onError.throw", outcome.error)
     /\ (Failures # <<>> /\ ~hooks.onError)
          => /\ pc = "done"
             /\ outcome = [state |-> "rejected", error |-> Failures[1]]
             /\ CountOf("onError") = 0

C9_Witness ==
  /\ caller = "adapter"
  /\ ~hooks.onError
  /\ Len(replayEntries) = MaxEntries
  /\ CountOf("onMessage") = 2
  /\ trace[Len(trace)].ev = "onMessage.throw"
  /\ outcome = [state |-> "rejected", error |-> [isError |-> FALSE, msg |-> "text"]]

\* C10: for a file that parses to zero entries getLogSummary() is null, and
\* start() invokes none of onStart, onMessage, onComplete; it invokes onError
\* with the empty-log error, or rejects with it when no onError is supplied.
C10_EmptyLog ==
  (caller = "adapter" /\ Started /\ ParseLogFile(file) = <<>>)
  => /\ summary.null
     /\ CountOf("onStart") = 0 /\ CountOf("onMessage") = 0 /\ CountOf("onComplete") = 0
     /\ IF hooks.onError
        THEN trace[1] = Event("onError", EmptyLogError)
        ELSE /\ trace = <<>>
             /\ outcome = [state |-> "rejected", error |-> EmptyLogError]

C10_Witness ==
  /\ caller = "adapter"
  /\ hooks.onError /\ hooks.onStart
  /\ file # <<>>
  /\ ParseLogFile(file) = <<>>
  /\ pc = "done"
  /\ outcome.state = "resolved"
  /\ Len(trace) = 2

\* C11: a replay can be cancelled.  When the consumer cancels the stream
\* after k of the N entries have been delivered (k < N), onMessage is not
\* invoked for the entries k+1..N and onComplete is not invoked.
C11_Cancellation ==
  (cancelledAt >= 0 /\ cancelledAt < Len(replayEntries))
  => /\ CountOf("onMessage") = cancelledAt
     /\ CountOf("onComplete") = 0

\* C12: when the callback of replay() throws or rejects on entry i, replay()
\* rejects with that same error: the callback is invoked for no later entry
\* and no further wait is scheduled.  Called directly, replay() settles as
\* rejected with the error; inside start() the error is what the catch block
\* receives.
C12_CallbackError ==
  \A p \in 1..Len(trace) :
    trace[p].ev = "onMessage.throw"
    => /\ \A q \in (p + 1)..Len(trace) : trace[q].ev \notin {"onMessage", "sleep", "wake"}
       /\ Len(SelectSeq(trace, LAMBDA e : e.ev = "onMessage")) = idx + 1
       /\ caller = "player"
            => /\ p = Len(trace)
               /\ pc = "done"
               /\ outcome = [state |-> "rejected", error |-> trace[p].arg]
       /\ (caller = "adapter" /\ hooks.onError)
            => trace[p + 1] = Event("onError", AsError(trace[p].arg))
       /\ (caller = "adapter" /\ ~hooks.onError)
            => /\ p = Len(trace)
               /\ outcome = [state |-> "rejected", error |-> trace[p].arg]

C12_Witness ==
  /\ caller = "player"
  /\ Len(replayEntries) = MaxEntries
  /\ idx = 1
  /\ CountOf("sleep") = 1
  /\ trace[Len(trace)] = Event("onMessage.throw", [isError |-> TRUE, msg |-> "hook failed"])
  /\ outcome = [state |-> "rejected", error |-> [isError |-> TRUE, msg |-> "hook failed"]]

\* C19: getLogSummary() returns null exactly when the file parses to zero
\* entries; otherwise totalMessages is the number of parsed entries,
\* firstTimestamp and lastTimestamp are the timestamps of the first and last
\* parsed entries, and duration = lastTimestamp - firstTimestamp.
C19_Summary ==
  (caller = "adapter" /\ Started)
  => LET good == GoodEntries(srcBlocks)
     IN /\ summary.null <=> (good = <<>>)
        /\ ~summary.null
             => /\ summary.totalMessages = Len(good)
                /\ summary.firstTimestamp = good[1].timestamp
                /\ summary.lastTimestamp = good[Len(good)].timestamp
                /\ summary.duration
                     = Num(good[Len(good)].timestamp.n - good[1].timestamp.n)

C19_Witness ==
  /\ caller = "adapter" /\ Started
  /\ Len(srcBlocks) = MaxEntries
  /\ ~srcBlocks[1].good
  /\ summary.totalMessages = MaxEntries - 1
  /\ summary.firstTimestamp = Num(StartClock + 500)
  /\ summary.duration = Num(1500)

\* C20: the k-th onMessage invocation of start() (k counted from 0) carries
\* metadata.index = k and metadata.total = the number of parsed entries, the
\* same on every invocation; message, count, timestamp and timeDiff are those
\* of the k-th parsed entry.  count is the recorded sequence number: it
\* differs from index + 1 when earlier blocks of the file were skipped.
C20_Metadata ==
  (caller = "adapter")
  => LET msgs == EventsOf("onMessage")
         good == GoodEntries(srcBlocks)
     IN \A k \in 1..Len(msgs) :
          /\ k <= Len(good)
          /\ msgs[k].arg.index = k - 1
          /\ msgs[k].arg.total = Len(good)
          /\ msgs[k].arg.message = good[k].message
          /\ msgs[k].arg.count = good[k].count
          /\ msgs[k].arg.timestamp = good[k].timestamp
          /\ msgs[k].arg.timeDiff = good[k].timeDiff
          /\ (Len(good) < Len(srcBlocks))
               => msgs[k].arg.count = Num(k + Len(srcBlocks) - Len(good))

C20_Witness ==
  /\ caller = "adapter"
  /\ Len(srcBlocks) = MaxEntries
  /\ ~srcBlocks[1].good
  /\ CountOf("onMessage") = MaxEntries - 1
  /\ LET last == EventsOf("onMessage")[MaxEntries - 1].arg
     IN /\ last.index = MaxEntries - 2
        /\ last.total = MaxEntries - 1
        /\ last.count = Num(MaxEntries)
        /\ last.message = srcBlocks[MaxEntries].entry.message

\* C18: every entry returned by parseLogFile has integer count, timestamp and
\* timeDiff parsed from its header; a block whose header is not exactly three
\* hyphen-separated integers is skipped.
C18_IntegerHeader ==
  phase = "read"
  => \A k \in 1..Len(entries) :
       ~entries[k].count.nan /\ ~entries[k].timestamp.nan /\ ~entries[k].timeDiff.nan

\* C15: close() is idempotent and always safe.  In a session without write
\* failure, a second or later close() on an enabled logger resolves without
\* error, with the file as it was after the first close; a close() on a
\* disabled logger resolves without error.
C15_CloseIdempotent ==
  AllCalls({"ok", "pending", "noop"})
  => \A k \in 1..Len(closes) :
       /\ (k >= 2 \/ ~enabled) => closes[k].status # "rejected"
       /\ (k >= 2 /\ closes[k].status = "resolved")
            => /\ closes[1].status = "resolved"
               /\ closes[k].file = closes[1].file

\* C16: a disabled logger is a no-op.  Whatever log() and close() calls are
\* made on a logger constructed with enabled = false, no file and no
\* directory is created, getLogFilePath() is null, getMessageCount() is 0,
\* and every call resolves without error.
C16_DisabledNoOp ==
  ~enabled
  => /\ ~fileExists /\ ~logDirExists /\ file = <<>>
     /\ AgentLoggerGetLogFilePath = Null
     /\ AgentLoggerGetMessageCount = 0
     /\ pending = <<>>
     /\ AllCalls({"noop"})
     /\ \A k \in 1..Len(closes) : closes[k].status = "resolved"

C16_Witness ==
  /\ ~enabled
  /\ Len(calls) = MaxCalls
  /\ Len(closes) = MaxCloses
  /\ calls[1].message = MsgText

\* C17: getMessageCount() is the number of records written to the file: once
\* every write handed to the stream has been settled, the two are equal, so
\* that a log() that was a no-op or whose write failed has not increased it.
C17_CountMatchesFile ==
  pending = <<>> => AgentLoggerGetMessageCount = Len(FileRecords(file))

\* C13: the wrapped callback of run() is a pass-through decorator.  For every
\* event handed to it, with recording enabled or disabled, the original
\* callback.onMessage is invoked exactly once with the same message, after
\* the logging step of that event has ended, and the invocations are in the
\* order in which the events arrived.
C13_PassThrough ==
  runPc # "off"
  => /\ \A k \in 1..Len(calls) :
          calls[k].status # "pending"
          => /\ Cardinality({j \in 1..Len(delivered) : delivered[j].call = k}) = 1
             /\ \A j \in 1..Len(delivered) :
                  delivered[j].call = k => delivered[j].message = calls[k].message
     /\ \A j \in 1..Len(delivered) :
          /\ delivered[j].logged # "pending"
          /\ \A i \in 1..(j - 1) : delivered[i].call < delivered[j].call

\* C14: in run(), once the logger exists, logger.close() is invoked exactly
\* once on every exit path (eko.run returning, eko.run rejecting, the
\* callback throwing): never while eko.run is awaited, once from the moment
\* it has settled, and when run() settles that close() has settled and the
\* stream of the log is no longer open; without a failed write every chunk
\* has then been flushed and the stream has finished.
C14_CloseOnExit ==
  /\ runPc = "running" => closes = <<>>
  /\ runPc \in {"closing", "done"} => Len(closes) = 1
  /\ runPc = "done"
       => /\ closes[1].status # "pending"
          /\ streamState \notin {"open", "ending"}
          /\ ~enabled => streamState = "none"
          /\ (enabled /\ AllCalls({"ok"}))
               => streamState = "finished" /\ pending = <<>>

C14_Witness ==
  /\ runPc = "done"
  /\ runOutcome.state = "rejected"
  /\ runOutcome.error = [isError |-> TRUE, msg |-> "agent failed"]
  /\ enabled
  /\ Len(delivered) = 2
  /\ delivered[2].threw
  /\ closes = <<[status |-> "resolved", error |-> "", file |-> file]>>
  /\ streamState = "finished"
  /\ Len(FileRecords(file)) = 2

\* C27: the timeDiff relation also holds when log() calls overlap.  In a
\* session whose writes all succeeded and in which some log() was issued
\* before the write of the previous one was acknowledged, every record after
\* the first still has timeDiff = its timestamp - the previous timestamp.
C27_TimeDiffOverlap ==
  (enabled /\ overlapped /\ AllCalls({"ok", "pending"}))
  => LET recs == FileRecords(file)
     IN \A k \in 2..Len(recs) :
          recs[k].timeDiff = Num(recs[k].timestamp.n - recs[k - 1].timestamp.n)

(***************************************************************************)
(* Reading a log that its writer has not finished: a well-formed file cut  *)
(* at any position                                                         *)
(***************************************************************************)
\* a record whose payload is a number
GoodNumber == GoodBlock([count |-> 2, timestamp |-> 600, timeDiff |-> 500, message |-> JNum(12)])

CutSessions ==
  {SessionBlocks(d, 1, StartClock, 0) : d \in SessionDiffs}
    \cup {<<GoodFirst, GoodSecond>>, <<GoodSecond>>, <<GoodFirst, GoodNumber>>}

InitCut ==
  /\ InitNoReplay
  /\ InitIdleLogger
  /\ srcBlocks \in CutSessions
  /\ \E n \in 0..Len(FileOfBlocks(srcBlocks)) :
       file = SubSeq(FileOfBlocks(srcBlocks), 1, n)

NextCut == ReadLog

SpecCut == InitCut /\ [][NextCut]_vars

\* the position in the file of the end of block k, separator included
BlockEnd(bs, k) == Len(FileOfBlocks(SubSeq(bs, 1, k)))

\* C26: reading a truncated log.  For a well-formed file cut at any position
\* parseLogFile returns a prefix of the list parsed from the complete file;
\* the prefix holds every record that was written completely, and a record
\* whose header or payload is cut yields no entry, so that no entry differs
\* from what was recorded.
C26_TruncatedRead ==
  phase = "read"
  => LET full == GoodEntries(srcBlocks)
         written == {k \in 1..Len(srcBlocks) : BlockEnd(srcBlocks, k) <= Len(file)}
         textWritten == {k \in 1..Len(srcBlocks) : BlockEnd(srcBlocks, k) - 2 <= Len(file)}
     IN /\ Len(entries) <= Len(full)
        /\ \A k \in 1..Len(entries) : entries[k] = full[k]
        /\ Cardinality(written) <= Len(entries)
        /\ Len(entries) <= Cardinality(textWritten)

(***************************************************************************)
(* The log directory: the names AgentLogger gives its files, and           *)
(* LogPlayer.listLogFiles / LogPlayerSSEAdapter.getLatestLog               *)
(***************************************************************************)
MaxFiles == 3
MaxWriters == 2

\* the characters of file names in the order of their UTF-16 code units
CodeOrder ==
  <<"-", ".", "/", "0", "1", "2", "3", "4", "5", "6", "7", "8", "9", ":", "_",
    "a", "b", "e", "g", "k", "l", "m", "n", "o", "s", "t", "x">>

CharCode(c) == CHOOSE i \in 1..Len(CodeOrder) : CodeOrder[i] = c

\* a < b as JavaScript compares strings
LexLess(a, b) ==
  LET n == IF Len(a) < Len(b) THEN Len(a) ELSE Len(b)
      diffs == {i \in 1..n : a[i] # b[i]}
  IN IF diffs = {} THEN Len(a) < Len(b)
     ELSE LET i == CHOOSE x \in diffs : \A y \in diffs : x <= y
          IN CharCode(a[i]) < CharCode(b[i])

\* Array.prototype.sort() on a set of distinct strings
RECURSIVE SortStrings(_)
SortStrings(S) ==
  IF S = {} THEN <<>>
  ELSE LET least == CHOOSE x \in S : \A y \in S \ {x} : LexLess(x, y)
       IN <<least>> \o SortStrings(S \ {least})

Reverse(q) == [i \in 1..Len(q) |-> q[Len(q) + 1 - i]]

StartsWith(str, w) == Len(str) >= Len(w) /\ SubSeq(str, 1, Len(w)) = w
EndsWith(str, w) == Len(str) >= Len(w) /\ SubSeq(str, Len(str) - Len(w) + 1, Len(str)) = w

LogPrefix == <<"e", "k", "o", "-", "l", "o", "g", "-">>
LogSuffix == <<".", "l", "o", "g">>
\* path.join(process.cwd(), 'agent-log'), the working directory left out
LogDirPath == <<"a", "g", "e", "n", "t", "-", "l", "o", "g">>

\* String(n).padStart(2, '0')
Pad2(n) == IF n < 10 THEN <<"0">> \o NatToStr(n) ELSE NatToStr(n)

\* formatDateTime(new Date(ts)) for a ts of the first day of the epoch, UTC
FormatDateTime(ts) ==
  <<"1", "9", "7", "0", "-", "0", "1", "-", "0", "1">> \o <<"_">>
    \o Pad2((ts \div 3600000) % 24) \o <<":">>
    \o Pad2((ts \div 60000) % 60) \o <<":">>
    \o Pad2((ts \div 1000) % 60)

\* name.replace(/[^a-zA-Z0-9-_.]/g, '_')
SanitizeModelName(name) ==
  [i \in 1..Len(name) |-> IF name[i] \in {"/", ":"} THEN "_" ELSE name[i]]

\* initializeLogFile: eko-log-${timestamp}-${dateStr}-${sanitized}.log
LogFileName(ts, modelName) ==
  LogPrefix \o NatToStr(ts) \o <<"-">> \o FormatDateTime(ts) \o <<"-">>
    \o SanitizeModelName(modelName) \o LogSuffix

\* LogPlayer.listLogFiles leaving the sorted list as it is
ListLogFilesAscending(exists, files, logDir) ==
  IF ~exists THEN <<>>
  ELSE SortStrings({logDir \o <<"/">> \o f :
                      f \in {g \in files : StartsWith(g, LogPrefix) /\ EndsWith(g, LogSuffix)}})

\* LogPlayer.listLogFiles(logDir): existsSync, readdirSync, filter, map,
\* sort, reverse
ListLogFiles(exists, files, logDir) ==
  IF ~exists THEN <<>>
  ELSE Reverse(SortStrings({logDir \o <<"/">> \o f :
                 f \in {g \in files : StartsWith(g, LogPrefix) /\ EndsWith(g, LogSuffix)}}))

\* LogPlayerSSEAdapter.getLatestLog(logDir)
GetLatestLog(exists, files, logDir) ==
  LET logs == ListLogFiles(exists, files, logDir)
  IN IF Len(logs) > 0 THEN logs[1] ELSE Null

\* the model names of the sessions
ModelNames == {<<"m">>, <<"a", "/", "b">>, <<"a", ":", "b">>}

\* the times at which the files of a directory were made
ListTimestamps == {StartClock, StartClock + 1, StartClock + 500}

\* names of files made by AgentLogger, and of other files
LogNames == {LogFileName(ts, m) : ts \in ListTimestamps, m \in {<<"m">>, <<"a", "/", "b">>}}
OtherNames == {<<"n", "o", "t", "e", "s", ".", "t", "x", "t">>, <<"e", "k", "o", "-", "l", "o", "g", "-", "1", ".", "t", "x", "t">>, <<"x", ".", "l", "o", "g">>}

\* someone lists the directory and asks for its latest log
ListDir ==
  /\ phase = "writing"
  /\ phase' = "listed"
  /\ listing' = ListLogFiles(logDirExists, DOMAIN dirFiles, LogDirPath)
  /\ latest' = GetLatestLog(logDirExists, DOMAIN dirFiles, LogDirPath)
  /\ UNCHANGED <<entries, dirFiles, writers, loggerVars, fileVars, replayVars, runVars,
                 routeVars>>

InitList ==
  /\ InitNoReplay
  /\ InitNoRun
  /\ InitNoRoute
  /\ InitLogger(FALSE)
  /\ fileExists = FALSE
  /\ file = <<>>
  /\ srcBlocks = <<>>
  /\ phase = "writing"
  /\ entries = <<>>
  /\ logDirExists \in BOOLEAN
  /\ \E names \in SUBSET (LogNames \cup OtherNames) :
       /\ Cardinality(names) <= MaxFiles
       /\ ~logDirExists => names = {}
       /\ dirFiles = [f \in names |-> <<>>]
  /\ writers = <<>>
  /\ listing = <<>>
  /\ latest = Null

NextList == ListDir

SpecList == InitList /\ [][NextList]_vars

\* the creation timestamp in the path of a log file
TimestampOf(logPath) ==
  ParseInt(SubSeq(logPath, Len(LogDirPath) + Len(LogPrefix) + 2, Len(logPath)))

\* C25: listLogFiles(dir) returns exactly the entries of the directory named
\* eko-log-*.log, in descending order of name, and the empty list when the
\* directory does not exist; getLatestLog(dir) returns the first element of
\* that list, the log with the greatest creation timestamp, or null for an
\* empty list.
C25_Listing ==
  phase = "listed"
  => /\ ~logDirExists => listing = <<>>
     /\ {listing[k] : k \in 1..Len(listing)}
          = {LogDirPath \o <<"/">> \o f : f \in (DOMAIN dirFiles) \cap LogNames}
     /\ \A i, j \in 1..Len(listing) : i < j => LexLess(listing[j], listing[i])
     /\ latest = (IF listing = <<>> THEN Null ELSE listing[1])
     /\ \A k \in 1..Len(listing) : TimestampOf(latest).n >= TimestampOf(listing[k]).n

C25_Witness ==
  /\ phase = "listed"
  /\ Cardinality(DOMAIN dirFiles) = MaxFiles
  /\ Cardinality((DOMAIN dirFiles) \cap OtherNames) = 1
  /\ Len(listing) = MaxFiles - 1
  /\ TimestampOf(latest) = Num(StartClock + 500)
  /\ TimestampOf(listing[Len(listing)]) = Num(StartClock)

(***************************************************************************)
(* Sessions of AgentLogger constructed in one process                      *)
(***************************************************************************)
WriterSteps == {0, 1}

\* new AgentLogger({modelName, enabled: true}) at the time now + step
NewAgentLogger(modelName, step) ==
  /\ Len(writers) < MaxWriters
  /\ now' = now + step
  /\ LET name == LogFileName(now + step, modelName)
     IN /\ writers' = Append(writers, [path |-> LogDirPath \o <<"/">> \o name, name |-> name,
                                       messageCount |-> 0, open |-> TRUE])
        /\ dirFiles' = IF name \in DOMAIN dirFiles THEN dirFiles
                       ELSE [f \in (DOMAIN dirFiles) \cup {name} |->
                               IF f = name THEN <<>> ELSE dirFiles[f]]
  /\ logDirExists' = TRUE
  /\ UNCHANGED <<enabled, messageCount, lastTimestamp, streamState, pending, calls,
                 overlapped, logFilePath, closes, file, fileExists, srcBlocks,
                 listing, latest, readerVars, replayVars, runVars, routeVars>>

\* log(message) of session w with its write: a record is appended to the
\* file of the session
WriterLog(w) ==
  /\ w \in 1..Len(writers)
  /\ writers[w].open
  /\ writers[w].messageCount < MaxCalls
  /\ writers' = [writers EXCEPT ![w].messageCount = @ + 1]
  /\ dirFiles' = [dirFiles EXCEPT ![writers[w].name] =
                    Append(@, [writer |-> w, count |-> writers[w].messageCount + 1])]
  /\ UNCHANGED <<listing, latest, loggerVars, fileVars, readerVars, replayVars, runVars,
                 routeVars>>

\* close() of session w
WriterClose(w) ==
  /\ w \in 1..Len(writers)
  /\ writers[w].open
  /\ writers' = [writers EXCEPT ![w].open = FALSE]
  /\ UNCHANGED <<dirFiles, listing, latest, loggerVars, fileVars, readerVars, replayVars,
                 runVars, routeVars>>

InitWriters ==
  /\ InitNoReplay
  /\ InitNoRun
  /\ InitNoRoute
  /\ InitNoDir
  /\ InitLogger(FALSE)
  /\ fileExists = FALSE
  /\ logDirExists = FALSE
  /\ file = <<>>
  /\ srcBlocks = <<>>
  /\ phase = "writing"
  /\ entries = <<>>

NextWriters ==
  \/ \E modelName \in ModelNames, step \in WriterSteps : NewAgentLogger(modelName, step)
  \/ \E w \in 1..MaxWriters : WriterLog(w)
  \/ \E w \in 1..MaxWriters : WriterClose(w)

SpecWriters == InitWriters /\ [][NextWriters]_vars

\* C22: exactly one writer owns a log file.  Two sessions that are open at
\* the same time have distinct files, and no file holds records of two
\* sessions.
C22_OneWriterPerFile ==
  /\ \A i, j \in 1..Len(writers) :
       (i < j /\ writers[i].open /\ writers[j].open) => writers[i].path # writers[j].path
  /\ \A f \in DOMAIN dirFiles :
       Cardinality({dirFiles[f][k].writer : k \in 1..Len(dirFiles[f])}) <= 1

(***************************************************************************)
(* A replay of the file of a session that is still being written           *)
(***************************************************************************)
LiveMessages == {MsgEmpty}
LiveSteps == {300}

InitLive ==
  /\ InitNoRun
  /\ InitNoDir
  /\ InitNoRoute
  /\ InitLogger(TRUE)
  /\ InitDisk
  /\ phase = "writing"
  /\ entries = <<>>
  /\ isDev = FALSE
  /\ caller = "adapter"
  /\ options = [mode |-> "fixed", fixedInterval |-> 100, speed10 |-> 10]
  /\ hooks \in HookSets
  /\ player = NoPlayer
  /\ pc = "new"
  /\ idx = 0
  /\ replayEntries = <<>>
  /\ summary = NullSummary
  /\ trace = <<>>
  /\ outcome = Pending
  /\ cancelledAt = 0 - 1

NextLive ==
  \/ \E message \in LiveMessages, step \in LiveSteps : LogCall(message, step)
  \/ WriteAck
  \/ NextReplay

SpecLive == InitLive /\ [][NextLive]_vars

\* C28: within one start() the totalMessages given to onStart, the total of
\* every onMessage invocation, and the number of onMessage invocations of a
\* start() that has completed are the same number, whatever is appended to
\* the file meanwhile.
C28_OneTotal ==
  \A p \in 1..Len(trace) :
    trace[p].ev = "onStart"
    => /\ \A q \in 1..Len(trace) :
            trace[q].ev = "onMessage" => trace[q].arg.total = trace[p].arg.totalMessages
       /\ (outcome.state = "resolved" /\ CountOf("onError") = 0)
            => CountOf("onMessage") = trace[p].arg.totalMessages

(***************************************************************************)
(* A live run recorded by run(), then the replay of its log file by the    *)
(* adapter                                                                 *)
(***************************************************************************)
RecordMessages == {MsgText, MsgNested}
RecordSteps == {0 - 5, 300}

\* run({enableLog: true}) up to await eko.run(query)
InitRecord ==
  /\ InitNoReplay
  /\ InitNoDir
  /\ InitNoRoute
  /\ InitLogger(TRUE)
  /\ InitDisk
  /\ phase = "writing"
  /\ entries = <<>>
  /\ runPc = "running"
  /\ runOutcome = RunPending
  /\ delivered = <<>>

\* after run() has settled, someone replays the file of its logger
StartReplaying ==
  /\ runPc = "done"
  /\ pc = "off"
  /\ pc' = "new"
  /\ caller' = "adapter"
  /\ options' = [mode |-> "fixed", fixedInterval |-> 100, speed10 |-> 10]
  /\ UNCHANGED <<isDev, hooks, player, idx, replayEntries, summary, trace, outcome,
                 cancelledAt, loggerVars, fileVars, readerVars, dirVars, routeVars, runVars>>

NextRecord ==
  \/ \E message \in RecordMessages, step \in RecordSteps :
       WrappedOnMessage(message, step, FALSE)
  \/ LogResolves(FALSE)
  \/ \E r \in EkoResults : EkoSettles(r)
  \/ StreamFinish
  \/ RunSettles
  \/ StartReplaying
  \/ Construct
  \/ Start
  \/ \E r \in HookResults : OnMessageReturn(r)
  \/ TimerFires

SpecRecord == InitRecord /\ [][NextRecord]_vars

\* C21: the replay of the file recorded by a live run invokes onMessage with
\* the payloads the live run delivered to its consumer: the same values in
\* the same order, and as many.
C21_ReplayReproduces ==
  (runPc = "done" /\ pc = "done" /\ outcome.state = "resolved")
  => [k \in 1..CountOf("onMessage") |-> EventsOf("onMessage")[k].arg.message]
       = [k \in 1..Len(delivered) |-> delivered[k].message]

(***************************************************************************)
(* The stream endpoint GET /api/agent/stream/[taskId] for one task id:     *)
(* the task store, the requests, the ReadableStream of the request that    *)
(* is let through, and its handler (handleReplay or handleRun).  run() is  *)
(* called with logging disabled.                                           *)
(***************************************************************************)
MaxRequests == 2

\* searchParams.get('logFile') of a request without the parameter, or with
\* an empty one: `if (logFile)` takes both for absent
NoFile == <<>>

\* the log file of the directory, and a name no file has
TheLog == LogFileName(StartClock, <<"m">>)
MissingLog == LogFileName(StartClock + 1, <<"m">>)

\* the query parameters as GET reads them: mode, logFile, playbackMode,
\* parseFloat(speed) in tenths and parseInt(fixedInterval, 10), with the
\* defaults of absent parameters filled in by the caller of Query
Query(mode, logFile, playbackMode, speed, fixedInterval) ==
  [mode |-> mode, logFile |-> logFile, playbackMode |-> playbackMode,
   speed |-> speed, fixedInterval |-> fixedInterval]

Queries ==
  {Query("normal", NoFile, "fixed", Num(10), Num(30)),
   Query("normal", NoFile, "fixed", Num(0), Num(30)),
   Query("replay", NoFile, "fixed", Num(10), Num(100)),
   Query("replay", TheLog, "realtime", Num(20), Num(100)),
   Query("replay", MissingLog, "fixed", Num(10), Num(100)),
   Query("replay", NoFile, "fixed", Num(0), Num(100)),
   Query("replay", NoFile, "realtime", Num(0 - 10), Num(100)),
   Query("replay", NoFile, "fixed", Num(1001), Num(100)),
   Query("replay", NoFile, "fixed", NaN, Num(100)),
   Query("replay", NoFile, "fixed", Num(10), Num(0)),
   Query("replay", NoFile, "fixed", Num(10), Num(60001)),
   Query("replay", NoFile, "fixed", Num(10), NaN)}

NoQuery == Query("none", NoFile, "none", NaN, NaN)

\* a request that has entered GET and awaits Promise.resolve(params)
Received == [state |-> "received", code |-> 0, query |-> NoQuery,
             before |-> "none", after |-> "none"]

Ok == [ok |-> TRUE, error |-> NoError]
NoLogFileError == [isError |-> TRUE, msg |-> "No available log file found"]
LogFileMissingError == [isError |-> TRUE, msg |-> "Log file does not exist"]

\* agentStart(query, params): the task is stored with status 'pending'
AgentStart ==
  /\ taskStatus = "absent"
  /\ taskStatus' = "pending"
  /\ UNCHANGED <<requests, sse, sseState, handlers, loggerVars, fileVars, readerVars,
                 replayVars, runVars, dirVars>>

\* a GET request arrives and reaches await Promise.resolve(params)
Receive ==
  /\ Len(requests) < MaxRequests
  /\ requests' = Append(requests, Received)
  /\ UNCHANGED <<taskStatus, sse, sseState, handlers, loggerVars, fileVars, readerVars,
                 replayVars, runVars, dirVars>>

\* the checks of the task letting a request through whatever the task does
AnswerNoConflict(status) ==
  CASE status = "absent" -> 404
    [] status = "completed" -> 200
    [] status = "error" -> 410
    [] OTHER -> 0

\* the checks of the task: the status of the response that ends the request,
\* 0 when the request goes on
Answer(status) ==
  CASE status = "absent" -> 404
    [] status = "completed" -> 200
    [] status = "running" -> 409
    [] status = "error" -> 410
    [] OTHER -> 0

\* the validation of the replay parameters; a comparison with NaN is false
ValidQuery(dev, q) ==
  /\ q.speed.nan \/ ValidSpeed(q.speed.n)
  /\ q.fixedInterval.nan \/ ValidFixedInterval(dev, q.fixedInterval.n)

\* return new Response(...) with the given status; the query is kept with
\* the answers that depend on it
Respond(k, q, code) ==
  /\ requests' = [requests EXCEPT ![k] = [state |-> "answered", code |-> code, query |-> q,
                                          before |-> taskStatus, after |-> taskStatus]]
  /\ UNCHANGED <<taskStatus, sse, sseState, handlers, replayVars, runVars, latest>>

\* handleReplay up to new LogPlayerSSEAdapter(...): the path of the log file;
\* without a path, or with the path of no file, the handler throws
BeginReplay(q) ==
  LET found == GetLatestLog(logDirExists, DOMAIN dirFiles, LogDirPath)
      noPath == q.logFile = NoFile /\ found = Null
      path == IF q.logFile # NoFile THEN LogDirPath \o <<"/">> \o q.logFile ELSE found
  IN /\ latest' = IF q.logFile # NoFile THEN latest ELSE found
     /\ caller' = "adapter"
     /\ hooks' = [onStart |-> TRUE, onComplete |-> TRUE, onError |-> TRUE]
     /\ options' = [mode |-> q.playbackMode,
                    fixedInterval |-> IF q.fixedInterval.nan THEN 0 ELSE q.fixedInterval.n,
                    speed10 |-> IF q.speed.nan THEN 0 ELSE q.speed.n]
     /\ IF noPath THEN Settle(trace, "rejected", NoLogFileError)
        ELSE IF ~\E f \in DOMAIN dirFiles : path = LogDirPath \o <<"/">> \o f
        THEN Settle(trace, "rejected", LogFileMissingError)
        ELSE pc' = "new" /\ UNCHANGED <<trace, outcome>>
     /\ UNCHANGED <<isDev, player, idx, replayEntries, summary, cancelledAt, runVars>>

\* handleRun up to await run(...)
BeginRun ==
  /\ runPc' = "running"
  /\ UNCHANGED <<runOutcome, delivered, replayVars, latest>>

\* GET after its await, to the return of its response: the checks of the
\* task, the validation, updateTaskStatus(taskId, 'running'), and the start
\* of the stream, which enqueues 'connected' and calls the handler
HandleRequest(k, q) ==
  /\ k \in 1..Len(requests)
  /\ requests[k].state = "received"
  /\ IF Answer(taskStatus) # 0 THEN Respond(k, NoQuery, Answer(taskStatus))
     ELSE IF q.mode = "replay" /\ ~ValidQuery(isDev, q) THEN Respond(k, q, 400)
     ELSE /\ taskStatus' = "running"
          /\ requests' = [requests EXCEPT ![k] = [state |-> "streaming", code |-> 200,
                                                  query |-> q, before |-> taskStatus,
                                                  after |-> "running"]]
          /\ sse' = Append(sse, "connected")
          /\ sseState' = "open"
          /\ handlers' = handlers + 1
          /\ IF q.mode = "replay" THEN BeginReplay(q) ELSE BeginRun
  /\ UNCHANGED <<loggerVars, fileVars, readerVars, dirFiles, writers, listing>>

\* the hooks handleReplay gives the adapter: onStart enqueues replay_info on
\* the stream just opened, onMessage swallows what enqueue throws,
\* onComplete writes to the console, onError throws its argument
StreamOnStart == OnStartReturn(Ok)
StreamOnMessage == OnMessageReturn(Ok)
StreamOnComplete == OnCompleteReturn(Ok)
StreamOnError == OnErrorReturn([ok |-> FALSE, error |-> trace[Len(trace)].arg])

\* the agent emits an event: callback.onMessage of handleRun enqueues it and
\* swallows what enqueue throws
StreamAgentMessage == WrappedOnMessage(MsgEmpty, 300, FALSE)

\* the promise of the handler
HandlerPromise(q) ==
  IF q.mode = "replay"
  THEN IF pc = "done" THEN outcome.state ELSE "pending"
  ELSE IF runPc = "done" THEN runOutcome.state ELSE "pending"

\* the await in the handler resolves: 'completed' is enqueued; handleRun
\* then sets the status; the finally block of start(controller) closes the
\* stream.  On a cancelled stream enqueue throws, the catch block of
\* start(controller) throws at its own enqueue, and close() throws
HandlerReturns(k) ==
  /\ k \in 1..Len(requests)
  /\ requests[k].state = "streaming"
  /\ HandlerPromise(requests[k].query) = "resolved"
  /\ IF sseState = "open"
     THEN /\ sse' = Append(sse, "completed")
          /\ taskStatus' = IF requests[k].query.mode = "replay" THEN taskStatus
                           ELSE "completed"
          /\ sseState' = "closed"
     ELSE UNCHANGED <<sse, taskStatus, sseState>>
  /\ requests' = [requests EXCEPT ![k].state = "finished", ![k].after = taskStatus']
  /\ UNCHANGED <<handlers, loggerVars, fileVars, readerVars, replayVars, runVars, dirVars>>

\* the await in the handler rejects: the catch block of start(controller)
\* enqueues 'error' and sets the status, the finally block closes the stream;
\* on a cancelled stream the enqueue of the catch block throws
HandlerThrows(k) ==
  /\ k \in 1..Len(requests)
  /\ requests[k].state = "streaming"
  /\ HandlerPromise(requests[k].query) = "rejected"
  /\ IF sseState = "open"
     THEN /\ sse' = Append(sse, "error")
          /\ taskStatus' = "error"
          /\ sseState' = "closed"
     ELSE UNCHANGED <<sse, taskStatus, sseState>>
  /\ requests' = [requests EXCEPT ![k].state = "finished", ![k].after = taskStatus']
  /\ UNCHANGED <<handlers, loggerVars, fileVars, readerVars, replayVars, runVars, dirVars>>

\* the consumer cancels the stream while the handler waits for a timer of
\* the replay or for the agent; cancel(reason) writes to the console
ConsumerCancels ==
  /\ sseState = "open"
  /\ pc = "sleep" \/ runPc = "running"
  /\ sseState' = "cancelled"
  /\ cancelledAt' = CountOf("onMessage")
  /\ UNCHANGED <<taskStatus, requests, sse, handlers, isDev, caller, options, hooks, player,
                 pc, idx, replayEntries, summary, trace, outcome, loggerVars, fileVars,
                 readerVars, runVars, dirVars>>

\* the log directory: absent, empty, or holding one log file that is empty
\* or the record of a session of two events
InitStream ==
  /\ InitLogger(FALSE)
  /\ InitNoRun
  /\ InitNoRoute
  /\ phase = "writing"
  /\ entries = <<>>
  /\ writers = <<>>
  /\ listing = <<>>
  /\ latest = Null
  /\ \/ /\ logDirExists \in BOOLEAN
        /\ dirFiles = <<>>
        /\ fileExists = FALSE
        /\ srcBlocks = <<>>
     \/ /\ logDirExists = TRUE
        /\ dirFiles = [f \in {TheLog} |-> <<>>]
        /\ fileExists = TRUE
        /\ srcBlocks \in {<<>>, SessionBlocks(<<0, 500>>, 1, StartClock, 0)}
  /\ file = FileOfBlocks(srcBlocks)
  /\ isDev \in BOOLEAN
  /\ caller = "none"
  /\ options = NoPlayer
  /\ hooks = [onStart |-> FALSE, onComplete |-> FALSE, onError |-> FALSE]
  /\ player = NoPlayer
  /\ pc = "off"
  /\ idx = 0
  /\ replayEntries = <<>>
  /\ summary = NullSummary
  /\ trace = <<>>
  /\ outcome = Pending
  /\ cancelledAt = 0 - 1

NextStream ==
  \/ AgentStart
  \/ Receive
  \/ \E k \in 1..MaxRequests, q \in Queries : HandleRequest(k, q)
  \/ Construct
  \/ Start
  \/ StreamOnStart
  \/ StreamOnMessage
  \/ TimerFires
  \/ StreamOnComplete
  \/ StreamOnError
  \/ StreamAgentMessage
  \/ \E r \in EkoResults : EkoSettles(r)
  \/ RunSettles
  \/ \E k \in 1..MaxRequests : HandlerReturns(k)
  \/ \E k \in 1..MaxRequests : HandlerThrows(k)
  \/ ConsumerCancels

SpecStream == InitStream /\ [][NextStream]_vars

(***************************************************************************)
(* Properties of the stream endpoint                                       *)
(***************************************************************************)
\* the requests that were let through to a handler
Streamed == {k \in 1..Len(requests) : requests[k].state \in {"streaming", "finished"}}

NumberOf(ev) == Len(SelectSeq(sse, LAMBDA e : e = ev))

\* C29: for one task id at most one handler execution is started, whatever
\* the interleaving of the requests; a request is let through only from
\* status 'pending', and a request that finds the task missing, running,
\* completed or failed is answered 404, 409, 200 (already completed) or 410,
\* starts no handler and leaves the status as it was.
C29_OneHandler ==
  /\ handlers <= 1
  /\ handlers = Cardinality(Streamed)
  /\ \A k \in Streamed : requests[k].before = "pending"
  /\ \A k \in 1..Len(requests) :
       (requests[k].state = "answered" /\ requests[k].before # "pending")
       => /\ requests[k].after = requests[k].before
          /\ requests[k].code = (CASE requests[k].before = "absent" -> 404
                                   [] requests[k].before = "running" -> 409
                                   [] requests[k].before = "completed" -> 200
                                   [] requests[k].before = "error" -> 410)

C29_Witness ==
  /\ handlers = 1
  /\ Len(requests) = MaxRequests
  /\ \E j, k \in 1..Len(requests) :
       /\ requests[j].state = "answered" /\ requests[j].code = 409
       /\ requests[k].state = "streaming" /\ j < k

\* speed or fixedInterval outside the range the endpoint allows
OutOfRange(dev, q) ==
  \/ ~q.speed.nan /\ (q.speed.n < 1 \/ q.speed.n > 1000)
  \/ ~q.fixedInterval.nan
       /\ (q.fixedInterval.n < (IF dev THEN 0 ELSE 10) \/ q.fixedInterval.n > 60000)

C23_TerminalEvent ==
  \A k \in 1..Len(requests) :
    requests[k].state = "finished"
    => IF HandlerPromise(requests[k].query) = "rejected"
       THEN NumberOf("error") = 1 /\ NumberOf("completed") = 0
       ELSE NumberOf("completed") = 1 /\ NumberOf("error") = 0

\* C30: once the handler has finished the status of the task is terminal:
\* 'completed' after a run or a replay that succeeded, 'error' after one that
\* failed, and never 'running'.
C30_TerminalStatus ==
  \A k \in 1..Len(requests) :
    requests[k].state = "finished"
    => taskStatus = (IF HandlerPromise(requests[k].query) = "rejected" THEN "error"
                     ELSE "completed")

====
